---- MODULE Spec2Model ----
(***************************************************************************)
(* Token Framer: the derived-artifact cache of framed token images, its    *)
(* update interception ("Stop & Swap") and the notification suppression    *)
(* around artifact uploads.                                                *)
(*                                                                         *)
(* Strings are sequences of one-character strings, so that includes(),     *)
(* split('/').pop() and replace() are computed as the code computes them.  *)
(* An absent (undefined / null) path-valued flag is the empty string: the  *)
(* code only ever tests these flags for truthiness.  An absent frameData   *)
(* flag is the empty record, as in `getFlag(...) ?? {}`.                   *)
(***************************************************************************)
EXTENDS Integers, Sequences, FiniteSets, TLC

(***************************************************************************)
(* Bounds of the model.                                                    *)
(***************************************************************************)
MaxExternal == 2
NumUploads == 3

(***************************************************************************)
(* String helpers.                                                         *)
(***************************************************************************)
Empty == <<>>

Includes(s, sub) ==
  \E i \in 1..(Len(s) - Len(sub) + 1) : SubSeq(s, i, i + Len(sub) - 1) = sub

StartsWith(s, pre) == Len(pre) <= Len(s) /\ SubSeq(s, 1, Len(pre)) = pre

Positions(s, c) == {i \in 1..Len(s) : s[i] = c}

Max(S) == CHOOSE m \in S : \A n \in S : n <= m

\* s.split('/').pop()
SplitPop(s) ==
  IF Positions(s, "/") = {} THEN s
  ELSE SubSeq(s, Max(Positions(s, "/")) + 1, Len(s))

\* a variant that leaves the extension in place
StripExtension_Keeps(s) ==
  s

\* s.replace(/\.[^.]+$/, '')
StripExtension(s) ==
  LET dots == Positions(s, ".")
  IN IF dots = {} \/ Max(dots) = Len(s) THEN s
     ELSE SubSeq(s, 1, Max(dots) - 1)

SafeChars ==
  {"a","b","c","d","e","f","g","h","i","j","k","l","m","n","o","p","q","r","s",
   "t","u","v","w","x","y","z","A","B","C","D","E","F","G","H","I","J","K","L",
   "M","N","O","P","Q","R","S","T","U","V","W","X","Y","Z","0","1","2","3","4",
   "5","6","7","8","9","_","-"}

\* a variant that deletes the characters it should replace
Sanitize_DropsUnsafe(s) ==
  SelectSeq(s, LAMBDA c : c \in SafeChars)

\* s.replace(/[^a-zA-Z0-9_-]/g, '_')
Sanitize(s) == [i \in 1..Len(s) |-> IF s[i] \in SafeChars THEN s[i] ELSE "_"]

(***************************************************************************)
(* Names and paths of the model.                                           *)
(***************************************************************************)
TokenFramerCache ==
  <<"t","o","k","e","n","-","f","r","a","m","e","r","-","c","a","c","h","e">>

WorldId == <<"w">>

DefaultCacheFolder == <<"w","o","r","l","d","s","/">> \o WorldId \o <<"/">> \o TokenFramerCache

CustomCacheFolder == <<"m","y","/","f","c">>

CacheFolderSettings == {Empty, CustomCacheFolder}

WebpExt == <<".","w","e","b","p">>

ImgA == <<"i","/","a",".","p","n","g">>

ImgB == <<"i","/","b"," ","c",".","j","p","g">>

RawImages == {ImgA, ImgB}

FrameImg == <<"f",".","p","n","g">>

TokenId == <<"T","1">>

TimeStamps == {<<"7">>}

CacheBust(now) == <<"?","t","=">> \o now

(***************************************************************************)
(* frame-layer.js: cache key and cache folder.                             *)
(***************************************************************************)
\* a variant that leaves the id out of the key
generateCacheKey_NoId(baseImagePath, id, isPrototype) ==
  LET baseFilename == StripExtension(SplitPop(baseImagePath))
      sanitizedFilename == Sanitize(baseFilename)
      prefix == IF isPrototype THEN <<"p","r","o","t","o">> ELSE <<"t","o","k","e","n">>
  IN <<"f","r","a","m","e","_">> \o prefix \o <<"_">> \o sanitizedFilename

generateCacheKey(baseImagePath, id, isPrototype) ==
  LET baseFilename == StripExtension(SplitPop(baseImagePath))
      sanitizedFilename == Sanitize(baseFilename)
      prefix == IF isPrototype THEN <<"p","r","o","t","o">> ELSE <<"t","o","k","e","n">>
  IN <<"f","r","a","m","e","_">> \o prefix \o <<"_">> \o id \o <<"_">> \o sanitizedFilename

getCacheFolder(setting) == IF setting # Empty THEN setting ELSE DefaultCacheFolder

\* the path FilePicker.upload answers for `${filename}.webp` in the cache folder
UploadPath(setting, filename) == getCacheFolder(setting) \o <<"/">> \o filename \o WebpExt

\* the keys of the token's images and of their artifacts, computed once
KnownPaths ==
  RawImages \cup {UploadPath(setting, generateCacheKey(path, TokenId, FALSE)) :
                    setting \in CacheFolderSettings, path \in RawImages}

TokenCacheKeys == [path \in KnownPaths |-> generateCacheKey(path, TokenId, FALSE)]

\* generateCacheKey(baseImagePath, id, false), looked up where it is already computed
tokenCacheKey(baseImagePath, id) ==
  IF id = TokenId /\ baseImagePath \in DOMAIN TokenCacheKeys
    THEN TokenCacheKeys[baseImagePath]
    ELSE generateCacheKey(baseImagePath, id, FALSE)

\* token-config.js
isFromCache(setting, imagePath) ==
  IF imagePath = Empty THEN FALSE
  ELSE IF setting # Empty /\ Includes(imagePath, setting) THEN TRUE
  ELSE IF Includes(imagePath, DefaultCacheFolder) THEN TRUE
  ELSE IF Includes(imagePath, TokenFramerCache) THEN TRUE
  ELSE FALSE

(***************************************************************************)
(* Records of the model.  An update's `changes` is a function from the     *)
(* names of the fields it carries to their values:                         *)
(*   "src"              changes.texture.src                                *)
(*   "frameData"        changes.flags[MODULE_ID].frameData (partial)       *)
(*   "-=frameData"      changes.flags[MODULE_ID]['-=frameData']            *)
(*   "originalImage"    changes.flags[MODULE_ID].originalImage             *)
(*   "currentCacheKey"  changes.flags[MODULE_ID].currentCacheKey           *)
(*   "other"            any field the module does not look at              *)
(***************************************************************************)
Has(r, f) == f \in DOMAIN r

Get(r, f, default) == IF f \in DOMAIN r THEN r[f] ELSE default

\* an update of one field
Field(f, v) == f :> v

NoOptions == <<>>

InterceptedOption == [tokenFramerIntercepted |-> TRUE]

FDOn == [enabled |-> TRUE, frameImage |-> FrameImg, baseScale |-> 90]

\* frameData.enabled && frameData.frameImage
FrameActive(frameData) ==
  Get(frameData, "enabled", FALSE) = TRUE /\ Get(frameData, "frameImage", Empty) # Empty

VARIABLES
  doc,          \* placed tokens: id -> [src, frameData, originalImage, currentCacheKey, other]
  cacheFolder,  \* game.settings.get(MODULE_ID, 'cacheFolder')
  UPDATE_LOCKS, \* main.js: ids whose next pre-commit hook is let through
  itasks,       \* performAsyncFrameUpdate calls in flight
  atasks,       \* applyFrameToToken / restoreOriginalImage calls in flight
  store,        \* artifact store: filename (cache key) -> what was composited
  notificationSuppressionCount,
  originalNotificationInfo,
  uiInfo,       \* which function ui.notifications.info is: "original" or "noop"
  uploads,      \* saveToCacheFile calls of the upload scenario
  hook,         \* history: the last preUpdateToken call, its inputs, the token before it, its answer
  commit,       \* history: the last update the host committed
  extCount,     \* history: external mutations so far
  calls,        \* history: the direct calls of applyFrameToToken and restoreOriginalImage
  design,       \* which main.js runs: "intercept" (Stop & Swap) or "flag" (flag-based)
  keyed,        \* history: two calls of generateCacheKey, their arguments and results
  drawn,        \* history: a call of compositeImage and generatePreview, or of the mask loop
  sweep,        \* regenerateAllFrames: its work list, its counters and its report
  actors,       \* actors: id -> prototype token [src, frameData, originalImage, cachedFramePath]
  panel         \* the configuration panel: form, base image, debounce timer, previews

vars == <<doc, cacheFolder, UPDATE_LOCKS, itasks, atasks, store,
          notificationSuppressionCount, originalNotificationInfo, uiInfo, uploads,
          hook, commit, extCount, calls, design, keyed, drawn, sweep, actors, panel>>

notifVars == <<notificationSuppressionCount, originalNotificationInfo, uiInfo>>

pureVars == <<keyed, drawn, sweep, actors, panel>>

(***************************************************************************)
(* The host's commit of an update (external collaborator): a partial       *)
(* patch; objects are merged field by field, "-=key" deletes the key.      *)
(***************************************************************************)
ApplyChanges(d, changes) ==
  [ src             |-> Get(changes, "src", d.src),
    frameData       |-> IF Has(changes, "-=frameData") THEN <<>>
                        ELSE IF Has(changes, "frameData") THEN changes.frameData @@ d.frameData
                        ELSE d.frameData,
    originalImage   |-> Get(changes, "originalImage", d.originalImage),
    currentCacheKey |-> IF Has(changes, "-=currentCacheKey") THEN Empty
                        ELSE Get(changes, "currentCacheKey", d.currentCacheKey),
    other           |-> Get(changes, "other", d.other) ]

(***************************************************************************)
(* The mutable state the hooks work on, passed through the sequential code *)
(* of one step as a record W = [doc, locks, itasks, atasks].               *)
(***************************************************************************)
World == [doc |-> doc, locks |-> UPDATE_LOCKS, itasks |-> itasks, atasks |-> atasks]

(***************************************************************************)
(* main.js (Stop & Swap design): Hooks.on('preUpdateToken').  The answer   *)
(* is [ret, W]: the hook's return value and the state it leaves.           *)
(***************************************************************************)
InterceptTask(t, changes, newTexture, frameData) ==
  [t |-> t, originalChanges |-> changes, baseImage |-> newTexture, frameData |-> frameData,
   pc |-> "generate", pending |-> <<>>, options |-> NoOptions, outcome |-> "none",
   result |-> <<>>, received |-> changes]

\* a variant that decides on the stored configuration alone
preUpdateToken_StoredOnly(W, t, changes, isOwner) ==
  LET newTexture == Get(changes, "src", Empty)
      folder == IF cacheFolder # Empty THEN cacheFolder ELSE TokenFramerCache
      currentFrameData == W.doc[t].frameData
      newFrameData == Get(changes, "frameData", <<>>)
  IN IF ~isOwner THEN [ret |-> TRUE, W |-> W]
     ELSE IF t \in W.locks THEN [ret |-> TRUE, W |-> [W EXCEPT !.locks = @ \ {t}]]
     ELSE IF Has(changes, "-=frameData") THEN [ret |-> TRUE, W |-> W]
     ELSE IF newTexture = Empty THEN [ret |-> TRUE, W |-> W]
     ELSE IF Includes(newTexture, folder) \/ Includes(newTexture, TokenFramerCache)
       THEN [ret |-> TRUE, W |-> W]
     ELSE IF Get(newFrameData, "enabled", TRUE) = FALSE THEN [ret |-> TRUE, W |-> W]
     ELSE IF FrameActive(currentFrameData)
       THEN [ret |-> FALSE,
             W |-> [W EXCEPT !.itasks =
                      Append(@, InterceptTask(t, changes, newTexture, currentFrameData))]]
     ELSE [ret |-> TRUE, W |-> W]

\* a variant without the bypass for an update that deletes frameData
preUpdateToken_NoRestoreBypass(W, t, changes, isOwner) ==
  LET newTexture == Get(changes, "src", Empty)
      folder == IF cacheFolder # Empty THEN cacheFolder ELSE TokenFramerCache
      currentFrameData == W.doc[t].frameData
      newFrameData == Get(changes, "frameData", <<>>)
      frameData == newFrameData @@ currentFrameData
  IN IF ~isOwner THEN [ret |-> TRUE, W |-> W]
     ELSE IF t \in W.locks THEN [ret |-> TRUE, W |-> [W EXCEPT !.locks = @ \ {t}]]
     ELSE IF newTexture = Empty THEN [ret |-> TRUE, W |-> W]
     ELSE IF Includes(newTexture, folder) \/ Includes(newTexture, TokenFramerCache)
       THEN [ret |-> TRUE, W |-> W]
     ELSE IF Get(newFrameData, "enabled", TRUE) = FALSE THEN [ret |-> TRUE, W |-> W]
     ELSE IF FrameActive(frameData)
       THEN [ret |-> FALSE,
             W |-> [W EXCEPT !.itasks = Append(@, InterceptTask(t, changes, newTexture, frameData))]]
     ELSE [ret |-> TRUE, W |-> W]

preUpdateToken(W, t, changes, isOwner) ==
  LET newTexture == Get(changes, "src", Empty)
      folder == IF cacheFolder # Empty THEN cacheFolder ELSE TokenFramerCache
      currentFrameData == W.doc[t].frameData
      newFrameData == Get(changes, "frameData", <<>>)
      frameData == newFrameData @@ currentFrameData
  IN IF ~isOwner THEN [ret |-> TRUE, W |-> W]
     ELSE IF t \in W.locks THEN [ret |-> TRUE, W |-> [W EXCEPT !.locks = @ \ {t}]]
     ELSE IF Has(changes, "-=frameData") THEN [ret |-> TRUE, W |-> W]
     ELSE IF newTexture = Empty THEN [ret |-> TRUE, W |-> W]
     ELSE IF Includes(newTexture, folder) \/ Includes(newTexture, TokenFramerCache)
       THEN [ret |-> TRUE, W |-> W]
     ELSE IF Get(newFrameData, "enabled", TRUE) = FALSE THEN [ret |-> TRUE, W |-> W]
     ELSE IF FrameActive(frameData)
       THEN [ret |-> FALSE,
             W |-> [W EXCEPT !.itasks = Append(@, InterceptTask(t, changes, newTexture, frameData))]]
     ELSE [ret |-> TRUE, W |-> W]

(***************************************************************************)
(* frame-layer.js: applyFrameToToken and restoreOriginalImage, up to their *)
(* first suspension point.  A call that suspends leaves a task in atasks.  *)
(***************************************************************************)
ApplyTask(t, pc, frameData, base, pending) ==
  [t |-> t, pc |-> pc, frameData |-> frameData, baseImagePath |-> base,
   cacheKey |-> IF base = Empty THEN Empty ELSE tokenCacheKey(base, t),
   pending |-> pending, wrote |-> {}]

restoreOriginalImage(W, t) ==
  LET originalImage == W.doc[t].originalImage
  IN IF originalImage # Empty /\ W.doc[t].src # originalImage
       THEN [W EXCEPT !.atasks = Append(@,
               ApplyTask(t, "restore", <<>>, Empty,
                         [src |-> originalImage, currentCacheKey |-> Empty]))]
       ELSE W

\* a variant that records currentCacheKey together with originalImage, before compositing
applyFrameToToken_KeyBeforeComposite(W, t, forceRegenerate) ==
  LET frameData == W.doc[t].frameData
      stored == W.doc[t].originalImage
  IN IF ~FrameActive(frameData) THEN restoreOriginalImage(W, t)
     ELSE IF stored = Empty
       THEN [W EXCEPT !.atasks = Append(@,
               ApplyTask(t, "setFlag", frameData, W.doc[t].src,
                         [originalImage |-> W.doc[t].src,
                          currentCacheKey |-> tokenCacheKey(W.doc[t].src, t)]))]
       ELSE [W EXCEPT !.atasks = Append(@, ApplyTask(t, "composite", frameData, stored, <<>>))]

\* a variant without the branch for a disabled configuration
applyFrameToToken_IgnoresDisabled(W, t, forceRegenerate) ==
  LET frameData == W.doc[t].frameData
      stored == W.doc[t].originalImage
  IN IF stored = Empty
       THEN [W EXCEPT !.atasks = Append(@,
               ApplyTask(t, "setFlag", frameData, W.doc[t].src,
                         [originalImage |-> W.doc[t].src]))]
       ELSE [W EXCEPT !.atasks = Append(@, ApplyTask(t, "composite", frameData, stored, <<>>))]

\* a variant that skips the work when the recorded key is already the derived one
applyFrameToToken_SkipIfCached(W, t, forceRegenerate) ==
  LET frameData == W.doc[t].frameData
      stored == W.doc[t].originalImage
  IN IF ~FrameActive(frameData) THEN restoreOriginalImage(W, t)
     ELSE IF stored = Empty
       THEN [W EXCEPT !.atasks = Append(@,
               ApplyTask(t, "setFlag", frameData, W.doc[t].src,
                         [originalImage |-> W.doc[t].src]))]
     ELSE IF ~forceRegenerate /\ W.doc[t].currentCacheKey = tokenCacheKey(stored, t)
       THEN W
       ELSE [W EXCEPT !.atasks = Append(@, ApplyTask(t, "composite", frameData, stored, <<>>))]

applyFrameToToken(W, t, forceRegenerate) ==
  LET frameData == W.doc[t].frameData
      stored == W.doc[t].originalImage
  IN IF ~FrameActive(frameData) THEN restoreOriginalImage(W, t)
     ELSE IF stored = Empty
       THEN \* the current texture is the original: await setFlag('originalImage', ...)
            [W EXCEPT !.atasks = Append(@,
               ApplyTask(t, "setFlag", frameData, W.doc[t].src,
                         [originalImage |-> W.doc[t].src]))]
       ELSE \* compositeImage is called and suspends on the image loads
            [W EXCEPT !.atasks = Append(@, ApplyTask(t, "composite", frameData, stored, <<>>))]

(***************************************************************************)
(* main.js (Stop & Swap design): Hooks.on('updateToken'), the reactor.     *)
(***************************************************************************)
\* a variant without the test of the originating user
updateToken_AnyUser(W, t, changes, options, sameUser) ==
  IF Get(options, "tokenFramerIntercepted", FALSE) THEN W
  ELSE LET frameDataChanged == Has(changes, "frameData")
           originalImageChanged == Has(changes, "originalImage")
       IN IF (frameDataChanged \/ originalImageChanged) /\ FrameActive(W.doc[t].frameData)
            THEN applyFrameToToken(W, t, TRUE)
            ELSE W

updateToken(W, t, changes, options, sameUser) ==
  IF ~sameUser THEN W
  ELSE IF Get(options, "tokenFramerIntercepted", FALSE) THEN W
  ELSE LET frameDataChanged == Has(changes, "frameData")
           originalImageChanged == Has(changes, "originalImage")
       IN IF (frameDataChanged \/ originalImageChanged) /\ FrameActive(W.doc[t].frameData)
            THEN applyFrameToToken(W, t, TRUE)
            ELSE W

(***************************************************************************)
(* frame-layer.js: handleBaseImageChange, up to its batch update.          *)
(***************************************************************************)
\* a variant that takes every new image for one of the module's own artifacts
handleBaseImageChange_IgnoresChange(W, t, newImagePath) ==
  W

handleBaseImageChange(W, t, newImagePath) ==
  IF ~FrameActive(W.doc[t].frameData) THEN W
  ELSE IF Includes(newImagePath, getCacheFolder(cacheFolder)) THEN W
  ELSE [W EXCEPT !.atasks = Append(@,
          ApplyTask(t, "baseImage", <<>>, Empty,
                    [originalImage |-> newImagePath, currentCacheKey |-> Empty]))]

(***************************************************************************)
(* main.js (flag-based design): Hooks.on('updateToken'), up to the first   *)
(* await of the branch taken.  This design has no pre-commit hook.         *)
(***************************************************************************)
updateTokenFlagBased(W, t, changes, sameUser) ==
  IF ~sameUser THEN W
  ELSE LET actualCacheFolder == IF cacheFolder # Empty THEN cacheFolder
                                ELSE DefaultCacheFolder
           frameDataChanged == Has(changes, "frameData")
           originalImageChanged == Has(changes, "originalImage")
           textureSrcChanged == Has(changes, "src")
           newBaseImage == IF /\ textureSrcChanged
                              /\ ~Includes(changes.src, actualCacheFolder)
                              /\ ~Includes(changes.src, TokenFramerCache)
                             THEN changes.src
                             ELSE Empty
       IN IF newBaseImage # Empty /\ frameDataChanged
            THEN [W EXCEPT !.atasks = Append(@,
                    ApplyTask(t, "setOriginal", <<>>, Empty,
                              [originalImage |-> newBaseImage]))]
          ELSE IF frameDataChanged \/ originalImageChanged
            THEN IF FrameActive(W.doc[t].frameData)
                   THEN [W EXCEPT !.atasks = Append(@,
                           ApplyTask(t, "unsetKey", <<>>, Empty,
                                     Field("-=currentCacheKey", TRUE)))]
                   ELSE W
          ELSE IF newBaseImage # Empty THEN handleBaseImageChange(W, t, newBaseImage)
          ELSE W

(***************************************************************************)
(* document.update(changes, options) from the pre-commit hook on: the hook *)
(* may veto; otherwise the host commits and the post-commit hook runs.     *)
(* The host refuses the update of a client that does not own the document. *)
(***************************************************************************)
DocumentUpdate(W, t, changes, options, isOwner) ==
  LET pre == IF design = "flag" THEN [ret |-> TRUE, W |-> W]
             ELSE preUpdateToken(W, t, changes, isOwner)
      committed == [pre.W EXCEPT !.doc[t] = ApplyChanges(@, changes)]
      after == IF design = "flag" THEN updateTokenFlagBased(committed, t, changes, TRUE)
               ELSE updateToken(committed, t, changes, options, TRUE)
  IN IF ~pre.ret THEN [W |-> pre.W, ret |-> FALSE, committed |-> FALSE, applied |-> FALSE]
     ELSE IF ~isOwner THEN [W |-> pre.W, ret |-> TRUE, committed |-> FALSE, applied |-> FALSE]
     ELSE [W |-> after, ret |-> TRUE, committed |-> TRUE,
           applied |-> Len(after.atasks) > Len(committed.atasks)]

(***************************************************************************)
(* frame-layer.js: the notification suppression around an upload, on the   *)
(* record N = [count, original, info].                                     *)
(***************************************************************************)
Notif == [count |-> notificationSuppressionCount, original |-> originalNotificationInfo,
          info |-> uiInfo]

beginNotificationSuppression(N) ==
  LET first == IF N.count = 0
                 THEN [N EXCEPT !.original = N.info, !.info = "noop"]
                 ELSE N
  IN [first EXCEPT !.count = @ + 1]

\* a variant with a boolean flag in place of the counter's return to zero
endNotificationSuppression_Boolean(N) ==
  LET dec == [N EXCEPT !.count = @ - 1]
  IN IF dec.original # "null"
       THEN [dec EXCEPT !.info = dec.original, !.original = "null"]
       ELSE dec

endNotificationSuppression(N) ==
  LET dec == [N EXCEPT !.count = @ - 1]
  IN IF dec.count = 0 /\ dec.original # "null"
       THEN [dec EXCEPT !.info = dec.original, !.original = "null"]
       ELSE dec

SetNotif(N) ==
  /\ notificationSuppressionCount' = N.count
  /\ originalNotificationInfo' = N.original
  /\ uiInfo' = N.info

(***************************************************************************)
(* main.js: performAsyncFrameUpdate.  getFramedPathForImage is imported    *)
(* from frame-layer.js, which does not define it; it is modelled from the  *)
(* specification: it composites and stores the artifact under the key of   *)
(* (baseImage, id) and answers its path and key, or nothing, or throws.    *)
(***************************************************************************)
GenerationOutcomes == {"ok", "null", "throw"}

getFramedPathForImage(baseImage, frameData, id, outcome, now) ==
  IF outcome = "ok"
    THEN [path |-> UploadPath(cacheFolder, tokenCacheKey(baseImage, id)) \o CacheBust(now),
          key |-> tokenCacheKey(baseImage, id)]
    ELSE <<>>

\* a variant that leaves the original texture.src in the replacement
Replacement_KeepsSrc(originalChanges, result, baseImage) ==
  [originalImage |-> baseImage, currentCacheKey |-> result.key] @@ originalChanges

\* a variant that builds the replacement from scratch
Replacement_DropsFields(originalChanges, result, baseImage) ==
  [src |-> result.path, originalImage |-> baseImage, currentCacheKey |-> result.key]

\* the replacement update: a deep clone of the original changes with three fields set
Replacement(originalChanges, result, baseImage) ==
  [src |-> result.path, originalImage |-> baseImage, currentCacheKey |-> result.key]
    @@ originalChanges

\* a variant whose fallback submits an empty update
Reissue_DropsFallback(task, outcome, now) ==
  LET result == getFramedPathForImage(task.baseImage, task.frameData, task.t, outcome, now)
  IN IF outcome = "ok"
       THEN [task EXCEPT !.pc = "update", !.outcome = outcome, !.result = result,
                         !.pending = Replacement(task.originalChanges, result, task.baseImage),
                         !.options = InterceptedOption]
       ELSE [task EXCEPT !.pc = "update", !.outcome = outcome, !.pending = <<>>]

\* what performAsyncFrameUpdate does once generation has answered, up to document.update
Reissue(task, outcome, now) ==
  LET result == getFramedPathForImage(task.baseImage, task.frameData, task.t, outcome, now)
  IN IF outcome = "ok"
       THEN [task EXCEPT !.pc = "update", !.outcome = outcome, !.result = result,
                         !.pending = Replacement(task.originalChanges, result, task.baseImage),
                         !.options = InterceptedOption]
       ELSE [task EXCEPT !.pc = "update", !.outcome = outcome,
                         !.pending = task.originalChanges]

RemoveAt(seq, i) == SubSeq(seq, 1, i - 1) \o SubSeq(seq, i + 1, Len(seq))

StoreWrite(st, filename, base, frameData) ==
  [k \in DOMAIN st \cup {filename} |->
     IF k = filename THEN [base |-> base, frameData |-> frameData] ELSE st[k]]

(***************************************************************************)
(* History records.                                                        *)
(***************************************************************************)
NoKeyed == [called |-> FALSE]

NoDrawn == [called |-> FALSE]

NoSweep == [pc |-> "idle"]

NoActors == <<>>

NoPanel == [open |-> FALSE]

NoHook == [called |-> FALSE]

NoCommit == [done |-> FALSE]

HookRecord(W, t, changes, options, isOwner, origin, r) ==
  [called |-> TRUE, t |-> t, changes |-> changes, options |-> options, isOwner |-> isOwner,
   origin |-> origin, locked |-> t \in W.locks, before |-> W.doc[t],
   ret |-> r.ret, started |-> Len(r.W.itasks) - Len(W.itasks)]

CommitRecord(t, changes, options, origin, r) ==
  IF r.committed
    THEN [done |-> TRUE, t |-> t, changes |-> changes, options |-> options, origin |-> origin,
          applied |-> r.applied]
    ELSE NoCommit

\* the record of a step in which compositeImage or the upload failed inside applyFrameToToken
FailRecord(task, stage) ==
  [called |-> FALSE, failed |-> TRUE, t |-> task.t, stage |-> stage, wrote |-> task.wrote]

\* the record of a direct call: the token before it, whether anything was in flight,
\* what the step before it committed, and the first suspension point of the call
CallRecord(op, W, t, forceRegenerate, after) ==
  [op |-> op, t |-> t, forceRegenerate |-> forceRegenerate, before |-> W.doc[t],
   idle |-> W.itasks = <<>> /\ W.atasks = <<>>,
   follows |-> IF commit.done THEN commit.origin ELSE "none",
   spawned |-> IF Len(after.atasks) > Len(W.atasks)
                 THEN after.atasks[Len(after.atasks)].pc
                 ELSE "none"]

\* one step's state after the sequential code has run on W
SetWorld(W) ==
  /\ doc' = W.doc
  /\ UPDATE_LOCKS' = W.locks
  /\ itasks' = W.itasks
  /\ atasks' = W.atasks

(***************************************************************************)
(* The updates that reach the token from outside the module.               *)
(***************************************************************************)
ExternalChanges ==
  { Field("src", ImgA),
    Field("src", ImgB),
    Field("src", ImgB) @@ Field("frameData", [FDOn EXCEPT !.baseScale = 80]) @@ Field("other", 1),
    Field("src", ImgB) @@ Field("frameData", [enabled |-> FALSE]),
    Field("src", ImgA) @@ Field("-=frameData", TRUE),
    Field("src", UploadPath(cacheFolder, tokenCacheKey(ImgA, TokenId))),
    Field("frameData", FDOn),
    Field("frameData", [enabled |-> FALSE]),
    Field("originalImage", ImgB) }

\* the updates of the owning client, and one of a client that does not own the token
ExternalUpdates ==
  [changes : ExternalChanges, isOwner : {TRUE}]
    \cup {[changes |-> Field("src", ImgB), isOwner |-> FALSE]}

(***************************************************************************)
(* Initial states: one placed token, either never framed or framed from    *)
(* ImgA with its artifact stored and displayed.                            *)
(***************************************************************************)
Unframed == [src |-> ImgA, frameData |-> <<>>, originalImage |-> Empty,
             currentCacheKey |-> Empty, other |-> 0]

Framed(setting) ==
  [src |-> UploadPath(setting, tokenCacheKey(ImgA, TokenId)) \o CacheBust(<<"7">>),
   frameData |-> FDOn, originalImage |-> ImgA,
   currentCacheKey |-> tokenCacheKey(ImgA, TokenId), other |-> 0]

InitIdleButActors ==
  /\ UPDATE_LOCKS = {}
  /\ itasks = <<>>
  /\ atasks = <<>>
  /\ notificationSuppressionCount = 0
  /\ originalNotificationInfo = "null"
  /\ uiInfo = "original"
  /\ uploads = [u \in 1..NumUploads |-> "idle"]
  /\ hook = NoHook
  /\ commit = NoCommit
  /\ extCount = 0
  /\ calls = <<>>
  /\ keyed = NoKeyed
  /\ drawn = NoDrawn
  /\ sweep = NoSweep
  /\ panel = NoPanel

InitIdle == InitIdleButActors /\ actors = NoActors

Init ==
  /\ cacheFolder \in CacheFolderSettings
  /\ design = "intercept"
  /\ \/ /\ doc = (TokenId :> Unframed)
        /\ store = <<>>
     \/ /\ doc = (TokenId :> Framed(cacheFolder))
        /\ store = StoreWrite(<<>>, tokenCacheKey(ImgA, TokenId), ImgA, FDOn)
  /\ InitIdle

(***************************************************************************)
(* Actions.                                                                *)
(***************************************************************************)
\* an update of the token by a user or another module reaches the pre-commit hook
ExternalUpdate(t, changes, isOwner) ==
  /\ extCount < MaxExternal
  /\ LET r == DocumentUpdate(World, t, changes, NoOptions, isOwner)
     IN /\ SetWorld(r.W)
        /\ hook' = HookRecord(World, t, changes, NoOptions, isOwner, "external", r)
        /\ commit' = CommitRecord(t, changes, NoOptions, "external", r)
  /\ extCount' = extCount + 1
  /\ UNCHANGED <<cacheFolder, design, pureVars, calls, store, notifVars, uploads>>

\* token-config.js: a click on Restore Original for a placed token
RestoreOriginalClick(t) ==
  /\ extCount < MaxExternal
  /\ LET after == restoreOriginalImage(World, t)
     IN /\ SetWorld(after)
        /\ calls' = Append(calls, CallRecord("restore", World, t, FALSE, after))
  /\ hook' = NoHook
  /\ commit' = NoCommit
  /\ extCount' = extCount + 1
  /\ UNCHANGED <<cacheFolder, design, pureVars, store, notifVars, uploads>>

\* createToken, canvasReady, the Apply Frame button: applyFrameToToken(token, forceRegenerate)
ApplyFrameCall(t, forceRegenerate) ==
  /\ extCount < MaxExternal
  /\ LET after == applyFrameToToken(World, t, forceRegenerate)
     IN /\ SetWorld(after)
        /\ calls' = Append(calls, CallRecord("apply", World, t, forceRegenerate, after))
  /\ hook' = NoHook
  /\ commit' = NoCommit
  /\ extCount' = extCount + 1
  /\ UNCHANGED <<cacheFolder, design, pureVars, store, notifVars, uploads>>

\* performAsyncFrameUpdate: generation answers; the lock is set and document.update called
Generate(i, outcome, now) ==
  /\ i \in 1..Len(itasks)
  /\ itasks[i].pc = "generate"
  /\ LET task == itasks[i]
     IN /\ itasks' = [itasks EXCEPT ![i] = Reissue(task, outcome, now)]
        /\ UPDATE_LOCKS' = UPDATE_LOCKS \cup {task.t}
        /\ store' = IF outcome = "ok"
                      THEN StoreWrite(store, tokenCacheKey(task.baseImage, task.t),
                                      task.baseImage, task.frameData)
                      ELSE store
  /\ hook' = NoHook
  /\ commit' = NoCommit
  /\ UNCHANGED <<doc, cacheFolder, design, pureVars, calls, atasks, notifVars, uploads, extCount>>

\* performAsyncFrameUpdate: the re-issued update reaches the pre-commit hook
ReissuedUpdate(i) ==
  /\ i \in 1..Len(itasks)
  /\ itasks[i].pc = "update"
  /\ LET task == itasks[i]
         W0 == [World EXCEPT !.itasks = RemoveAt(@, i)]
         r == DocumentUpdate(W0, task.t, task.pending, task.options, TRUE)
     IN /\ SetWorld(r.W)
        /\ hook' = HookRecord(W0, task.t, task.pending, task.options, TRUE, "reissue", r)
               @@ [outcome |-> task.outcome, received |-> task.received,
                   baseImage |-> task.baseImage]
        /\ commit' = CommitRecord(task.t, task.pending, task.options, "reissue", r)
               @@ [outcome |-> task.outcome]
  /\ UNCHANGED <<cacheFolder, design, pureVars, calls, store, notifVars, uploads, extCount>>

\* restoreOriginalImage: its update reaches the pre-commit hook
RestoreUpdate(i) ==
  /\ i \in 1..Len(atasks)
  /\ atasks[i].pc = "restore"
  /\ LET task == atasks[i]
         W0 == [World EXCEPT !.atasks = RemoveAt(@, i)]
         r == DocumentUpdate(W0, task.t, task.pending, NoOptions, TRUE)
     IN /\ SetWorld(r.W)
        /\ hook' = HookRecord(W0, task.t, task.pending, NoOptions, TRUE, "restore", r)
        /\ commit' = CommitRecord(task.t, task.pending, NoOptions, "restore", r)
  /\ UNCHANGED <<cacheFolder, design, pureVars, calls, store, notifVars, uploads, extCount>>

\* applyFrameToToken: setFlag('originalImage') reaches the hook, then compositeImage is called
SetFlagUpdate(i) ==
  /\ i \in 1..Len(atasks)
  /\ atasks[i].pc = "setFlag"
  /\ LET task == atasks[i]
         r == DocumentUpdate(World, task.t, task.pending, NoOptions, TRUE)
         W2 == [r.W EXCEPT !.atasks[i].pc = "composite", !.atasks[i].pending = <<>>,
                           !.atasks[i].wrote = IF r.committed THEN DOMAIN task.pending ELSE {}]
     IN /\ SetWorld(W2)
        /\ hook' = HookRecord(World, task.t, task.pending, NoOptions, TRUE, "setFlag", r)
        /\ commit' = CommitRecord(task.t, task.pending, NoOptions, "setFlag", r)
  /\ UNCHANGED <<cacheFolder, design, pureVars, calls, store, notifVars, uploads, extCount>>

\* applyFrameToToken: compositeImage answers; on success saveToCacheFile starts the upload
Composite(i, ok) ==
  /\ i \in 1..Len(atasks)
  /\ atasks[i].pc = "composite"
  /\ IF ok
       THEN /\ atasks' = [atasks EXCEPT ![i].pc = "upload"]
            /\ SetNotif(beginNotificationSuppression(Notif))
       ELSE /\ atasks' = RemoveAt(atasks, i)
            /\ UNCHANGED notifVars
  /\ hook' = IF ok THEN NoHook ELSE FailRecord(atasks[i], "composite")
  /\ commit' = NoCommit
  /\ UNCHANGED <<doc, cacheFolder, design, pureVars, calls, UPDATE_LOCKS, itasks, store, uploads, extCount>>

\* applyFrameToToken: the upload answers; on success document.update is called
Upload(i, ok, now) ==
  /\ i \in 1..Len(atasks)
  /\ atasks[i].pc = "upload"
  /\ SetNotif(endNotificationSuppression(Notif))
  /\ LET task == atasks[i]
     IN IF ok
          THEN /\ store' = StoreWrite(store, task.cacheKey, task.baseImagePath, task.frameData)
               /\ atasks' = [atasks EXCEPT ![i].pc = "update",
                               ![i].pending =
                                  [src |-> UploadPath(cacheFolder, task.cacheKey) \o CacheBust(now),
                                   currentCacheKey |-> task.cacheKey]]
          ELSE /\ atasks' = RemoveAt(atasks, i)
               /\ UNCHANGED store
  /\ hook' = IF ok THEN NoHook ELSE FailRecord(atasks[i], "upload")
  /\ commit' = NoCommit
  /\ UNCHANGED <<doc, cacheFolder, design, pureVars, calls, UPDATE_LOCKS, itasks, uploads, extCount>>

\* applyFrameToToken: the final update reaches the pre-commit hook
ApplyUpdate(i) ==
  /\ i \in 1..Len(atasks)
  /\ atasks[i].pc = "update"
  /\ LET task == atasks[i]
         W0 == [World EXCEPT !.atasks = RemoveAt(@, i)]
         r == DocumentUpdate(W0, task.t, task.pending, NoOptions, TRUE)
     IN /\ SetWorld(r.W)
        /\ hook' = HookRecord(W0, task.t, task.pending, NoOptions, TRUE, "apply", r)
        /\ commit' = CommitRecord(task.t, task.pending, NoOptions, "apply", r)
  /\ UNCHANGED <<cacheFolder, design, pureVars, calls, store, notifVars, uploads, extCount>>

Next ==
  \/ \E t \in DOMAIN doc, u \in ExternalUpdates : ExternalUpdate(t, u.changes, u.isOwner)
  \/ \E t \in DOMAIN doc : RestoreOriginalClick(t)
  \/ \E i \in 1..Len(itasks), outcome \in GenerationOutcomes, now \in TimeStamps :
       Generate(i, outcome, now)
  \/ \E i \in 1..Len(itasks) : ReissuedUpdate(i)
  \/ \E i \in 1..Len(atasks) : RestoreUpdate(i)
  \/ \E i \in 1..Len(atasks) : SetFlagUpdate(i)
  \/ \E i \in 1..Len(atasks), ok \in BOOLEAN : Composite(i, ok)
  \/ \E i \in 1..Len(atasks), ok \in BOOLEAN, now \in TimeStamps : Upload(i, ok, now)
  \/ \E i \in 1..Len(atasks) : ApplyUpdate(i)

Spec == Init /\ [][Next]_vars

(***************************************************************************)
(* The module's entry points called directly on a token in each of its     *)
(* frame states: applyFrameToToken (createToken, canvasReady, the Apply    *)
(* Frame button) and restoreOriginalImage (the Restore Original button),   *)
(* with everything they set going.                                         *)
(***************************************************************************)
FreshEnabled == [Unframed EXCEPT !.frameData = FDOn]

FramedDisabled(setting) == [Framed(setting) EXCEPT !.frameData.enabled = FALSE]

FramedNoFrameImage(setting) == [Framed(setting) EXCEPT !.frameData.frameImage = Empty]

InitOps ==
  /\ cacheFolder \in CacheFolderSettings
  /\ design = "intercept"
  /\ \/ /\ doc \in {TokenId :> Unframed, TokenId :> FreshEnabled}
        /\ store = <<>>
     \/ /\ doc \in {TokenId :> Framed(cacheFolder), TokenId :> FramedDisabled(cacheFolder),
                    TokenId :> FramedNoFrameImage(cacheFolder)}
        /\ store = StoreWrite(<<>>, tokenCacheKey(ImgA, TokenId), ImgA, FDOn)
  /\ InitIdle

NextOps ==
  \/ \E t \in DOMAIN doc, forceRegenerate \in BOOLEAN : ApplyFrameCall(t, forceRegenerate)
  \/ \E t \in DOMAIN doc : RestoreOriginalClick(t)
  \/ \E i \in 1..Len(itasks), outcome \in GenerationOutcomes, now \in TimeStamps :
       Generate(i, outcome, now)
  \/ \E i \in 1..Len(itasks) : ReissuedUpdate(i)
  \/ \E i \in 1..Len(atasks) : RestoreUpdate(i)
  \/ \E i \in 1..Len(atasks) : SetFlagUpdate(i)
  \/ \E i \in 1..Len(atasks), ok \in BOOLEAN : Composite(i, ok)
  \/ \E i \in 1..Len(atasks), ok \in BOOLEAN, now \in TimeStamps : Upload(i, ok, now)
  \/ \E i \in 1..Len(atasks) : ApplyUpdate(i)

SpecOps == InitOps /\ [][NextOps]_vars

(***************************************************************************)
(* token-config.js: the Apply Frame button on a placed token, with every   *)
(* generation it sets going succeeding.  The handler writes originalImage  *)
(* when the form's base image differs from it, then frameData, then calls  *)
(* applyFrameToToken; each write reaches the reactor.                      *)
(***************************************************************************)
FDScaled == [FDOn EXCEPT !.baseScale = 80]

\* what gatherFrameFormData can return, and the base image the form shows
FormData == {FDOn, FDScaled}

\* a click on Apply Frame: the handler runs up to its first setFlag
ApplyFrameClick(t, basePath, formData) ==
  /\ extCount < MaxExternal
  /\ atasks' = Append(atasks,
                 IF basePath # doc[t].originalImage
                   THEN ApplyTask(t, "formOriginal", formData, basePath,
                                  [originalImage |-> basePath])
                   ELSE ApplyTask(t, "formFrameData", formData, basePath,
                                  [frameData |-> formData]))
  /\ hook' = NoHook
  /\ commit' = NoCommit
  /\ extCount' = extCount + 1
  /\ UNCHANGED <<doc, cacheFolder, design, pureVars, calls, UPDATE_LOCKS, itasks, store, notifVars,
                 uploads>>

\* the handler's setFlag is committed and the handler runs to its next await
ApplyFrameWrite(i) ==
  /\ i \in 1..Len(atasks)
  /\ atasks[i].pc \in {"formOriginal", "formFrameData"}
  /\ LET task == atasks[i]
         r == DocumentUpdate(World, task.t, task.pending, NoOptions, TRUE)
         W2 == IF task.pc = "formOriginal"
                 THEN [r.W EXCEPT !.atasks[i].pc = "formFrameData",
                                  !.atasks[i].pending = [frameData |-> task.frameData]]
                 ELSE applyFrameToToken([r.W EXCEPT !.atasks = RemoveAt(@, i)], task.t, TRUE)
     IN /\ SetWorld(W2)
        /\ hook' = HookRecord(World, task.t, task.pending, NoOptions, TRUE, task.pc, r)
        /\ commit' = CommitRecord(task.t, task.pending, NoOptions, task.pc, r)
  /\ UNCHANGED <<cacheFolder, design, pureVars, calls, store, notifVars, uploads, extCount>>

NextApply ==
  \/ \E t \in DOMAIN doc, basePath \in RawImages, formData \in FormData :
       ApplyFrameClick(t, basePath, formData)
  \/ \E i \in 1..Len(atasks) : ApplyFrameWrite(i)
  \/ \E i \in 1..Len(atasks) : Composite(i, TRUE)
  \/ \E i \in 1..Len(atasks), now \in TimeStamps : Upload(i, TRUE, now)
  \/ \E i \in 1..Len(atasks) : ApplyUpdate(i)

SpecApply == Init /\ [][NextApply]_vars

(***************************************************************************)
(* Both designs of main.js that README.md holds: the Stop & Swap design    *)
(* above and the flag-based design, whose reactor runs after the commit    *)
(* and writes the flags itself (setFlag, unsetFlag, handleBaseImageChange).*)
(* The scheduler resumes a task whose await has settled.                   *)
(***************************************************************************)
Designs == {"intercept", "flag"}

\* flag-based design: an update awaited by the reactor or by handleBaseImageChange is
\* committed and the code after the await runs up to its next suspension point
FlagUpdate(i) ==
  /\ i \in 1..Len(atasks)
  /\ atasks[i].pc \in {"setOriginal", "unsetKey", "baseImage"}
  /\ LET task == atasks[i]
         r == DocumentUpdate(World, task.t, task.pending, NoOptions, TRUE)
         W2 == IF task.pc = "setOriginal"
                 THEN [r.W EXCEPT !.atasks[i].pc = "unsetKey",
                                  !.atasks[i].pending = Field("-=currentCacheKey", TRUE)]
                 ELSE applyFrameToToken([r.W EXCEPT !.atasks = RemoveAt(@, i)], task.t,
                                        task.pc = "unsetKey")
     IN /\ SetWorld(W2)
        /\ hook' = HookRecord(World, task.t, task.pending, NoOptions, TRUE, task.pc, r)
        /\ commit' = CommitRecord(task.t, task.pending, NoOptions, task.pc, r)
  /\ UNCHANGED <<cacheFolder, design, pureVars, calls, store, notifVars, uploads, extCount>>

InitDesigns ==
  /\ cacheFolder \in CacheFolderSettings
  /\ design \in Designs
  /\ \/ /\ doc = (TokenId :> Unframed)
        /\ store = <<>>
     \/ /\ doc = (TokenId :> Framed(cacheFolder))
        /\ store = StoreWrite(<<>>, tokenCacheKey(ImgA, TokenId), ImgA, FDOn)
  /\ InitIdle

\* a task resumes
Continue ==
  \/ \E i \in 1..Len(itasks), outcome \in GenerationOutcomes, now \in TimeStamps :
       Generate(i, outcome, now)
  \/ \E i \in 1..Len(itasks) : ReissuedUpdate(i)
  \/ \E i \in 1..Len(atasks) : RestoreUpdate(i)
  \/ \E i \in 1..Len(atasks) : SetFlagUpdate(i)
  \/ \E i \in 1..Len(atasks), ok \in BOOLEAN : Composite(i, ok)
  \/ \E i \in 1..Len(atasks), ok \in BOOLEAN, now \in TimeStamps : Upload(i, ok, now)
  \/ \E i \in 1..Len(atasks) : ApplyUpdate(i)
  \/ \E i \in 1..Len(atasks) : FlagUpdate(i)

NextDesigns ==
  \/ \E t \in DOMAIN doc, u \in ExternalUpdates : ExternalUpdate(t, u.changes, u.isOwner)
  \/ \E t \in DOMAIN doc : RestoreOriginalClick(t)
  \/ Continue

FairDesigns == InitDesigns /\ [][NextDesigns]_vars /\ WF_vars(Continue)

(***************************************************************************)
(* The same system on a host that may reject an update submitted by        *)
(* performAsyncFrameUpdate: in the client, before the pre-commit hook is   *)
(* called, or in the server, after the hook has let the update through.    *)
(* A rejection in the try block enters the catch block, which sets the     *)
(* lock and submits the original changes; nothing catches a rejection of   *)
(* that submission.                                                        *)
(***************************************************************************)
RejectionStages == {"client", "server"}

ReissueRejected(i, stage) ==
  /\ i \in 1..Len(itasks)
  /\ itasks[i].pc = "update"
  /\ LET task == itasks[i]
         inCatch == task.outcome = "throw"
         pre == IF stage = "server"
                  THEN preUpdateToken(World, task.t, task.pending, TRUE)
                  ELSE [ret |-> TRUE, W |-> World]
         caught == [task EXCEPT !.outcome = "throw", !.pending = task.originalChanges,
                                !.options = NoOptions]
     IN /\ pre.ret
        /\ doc' = pre.W.doc
        /\ atasks' = pre.W.atasks
        /\ itasks' = IF inCatch THEN RemoveAt(pre.W.itasks, i)
                                ELSE [pre.W.itasks EXCEPT ![i] = caught]
        /\ UPDATE_LOCKS' = IF inCatch THEN pre.W.locks ELSE pre.W.locks \cup {task.t}
        /\ hook' = [called |-> FALSE, rejected |-> TRUE, stage |-> stage, t |-> task.t,
                    escaped |-> inCatch]
  /\ commit' = NoCommit
  /\ UNCHANGED <<cacheFolder, design, pureVars, calls, store, notifVars, uploads, extCount>>

NextHost ==
  \/ Next
  \/ \E i \in 1..Len(itasks), stage \in RejectionStages : ReissueRejected(i, stage)

SpecHost == Init /\ [][NextHost]_vars

(***************************************************************************)
(* The same system with the scheduler's guarantee that a task whose await  *)
(* has settled is resumed: generation answers and the re-issued update is  *)
(* submitted.                                                              *)
(***************************************************************************)
FairSpec ==
  /\ Spec
  /\ WF_vars(\E i \in 1..Len(itasks), outcome \in GenerationOutcomes, now \in TimeStamps :
               Generate(i, outcome, now))
  /\ WF_vars(\E i \in 1..Len(itasks) : ReissuedUpdate(i))

(***************************************************************************)
(* frame-layer.js: saveToCacheFile called NumUploads times, the calls      *)
(* interleaving at their awaits.  Nothing else runs.                       *)
(***************************************************************************)
protocolVars == <<doc, cacheFolder, UPDATE_LOCKS, itasks, atasks, store, hook, commit, extCount,
                  calls, design, keyed, drawn, sweep, actors, panel>>

InitNotif ==
  /\ cacheFolder = Empty
  /\ design = "intercept"
  /\ doc = (TokenId :> Unframed)
  /\ store = <<>>
  /\ InitIdle

\* saveToCacheFile is called and awaits ensureCacheFolder
SaveToCacheFile(u) ==
  /\ uploads[u] = "idle"
  /\ uploads' = [uploads EXCEPT ![u] = "ensure"]
  /\ UNCHANGED <<protocolVars, notifVars>>

\* ensureCacheFolder has answered: suppression begins and FilePicker.upload is awaited
BeginUpload(u) ==
  /\ uploads[u] = "ensure"
  /\ uploads' = [uploads EXCEPT ![u] = "upload"]
  /\ SetNotif(beginNotificationSuppression(Notif))
  /\ UNCHANGED protocolVars

\* a variant without the finally block: a rejected upload does not end the suppression
EndUpload_NoFinally(u, ok) ==
  /\ uploads[u] = "upload"
  /\ uploads' = [uploads EXCEPT ![u] = IF ok THEN "resolved" ELSE "rejected"]
  /\ IF ok THEN SetNotif(endNotificationSuppression(Notif)) ELSE UNCHANGED notifVars
  /\ UNCHANGED protocolVars

\* FilePicker.upload resolves or rejects: the finally block ends the suppression
EndUpload(u, ok) ==
  /\ uploads[u] = "upload"
  /\ uploads' = [uploads EXCEPT ![u] = IF ok THEN "resolved" ELSE "rejected"]
  /\ SetNotif(endNotificationSuppression(Notif))
  /\ UNCHANGED protocolVars

NextNotif ==
  \/ \E u \in 1..NumUploads : SaveToCacheFile(u)
  \/ \E u \in 1..NumUploads : BeginUpload(u)
  \/ \E u \in 1..NumUploads, ok \in BOOLEAN : EndUpload(u, ok)

SpecNotif == InitNotif /\ [][NextNotif]_vars

(***************************************************************************)
(* frame-layer.js: generateCacheKey called twice, on base image paths put  *)
(* together from a directory, a file name and an extension, for two ids    *)
(* and both roles.  A name with a dot in it always carries an extension,   *)
(* so that the parts are what the path says.                               *)
(***************************************************************************)
KeyDirs == {<<>>, <<"i","/">>, <<"j","/","k",".","d","/">>}

KeyStems == {<<"a">>, <<"b"," ","c">>, <<"b","_","c">>, <<"a",".","b">>, <<"A","-","1","#">>}

KeyExts == {<<>>, <<".","p","n","g">>, <<".","j","p","g">>}

KeyIds == {TokenId, <<"T","2">>}

KeyInputs ==
  {x \in [dir : KeyDirs, stem : KeyStems, ext : KeyExts, id : KeyIds, isPrototype : BOOLEAN] :
     x.ext # <<>> \/ Positions(x.stem, ".") = {}}

KeyPath(x) == x.dir \o x.stem \o x.ext

InitKey ==
  /\ cacheFolder \in CacheFolderSettings
  /\ design = "intercept"
  /\ doc = (TokenId :> Unframed)
  /\ store = <<>>
  /\ InitIdle

\* generateCacheKey(x) and generateCacheKey(y) are called
KeyCalls(x, y) ==
  /\ ~keyed.called
  /\ keyed' = [called |-> TRUE, x |-> x, y |-> y,
               kx |-> generateCacheKey(KeyPath(x), x.id, x.isPrototype),
               ky |-> generateCacheKey(KeyPath(y), y.id, y.isPrototype)]
  /\ UNCHANGED <<doc, cacheFolder, UPDATE_LOCKS, itasks, atasks, store, hook, commit, extCount,
                 calls, design, notifVars, uploads, drawn, sweep, actors, panel>>

NextKey ==
  /\ ~keyed.called
  /\ \E x \in KeyInputs, y \in KeyInputs : KeyCalls(x, y)

SpecKey == InitKey /\ [][NextKey]_vars

(***************************************************************************)
(* frame-layer.js: generateFrameForPrototype, called for the prototype     *)
(* token of an actor.  A call that passes its guard leaves a task in       *)
(* atasks; every call ends with a record in calls.                         *)
(***************************************************************************)
ActorId == <<"A","1">>

ProtoBases == {Empty, ImgA, ImgB}

ProtoIds == {Empty, ActorId}

ProtoFrameData == {<<>>, FDOn, FDScaled, [FDOn EXCEPT !.enabled = FALSE],
                   [FDOn EXCEPT !.frameImage = Empty]}

\* the keys of the actor's images, computed once
ProtoCacheKeys == [path \in RawImages |-> generateCacheKey(path, ActorId, TRUE)]

\* generateCacheKey(baseImagePath, actorId, true), looked up where it is already computed
protoCacheKey(baseImagePath, actorId) ==
  IF actorId = ActorId /\ baseImagePath \in DOMAIN ProtoCacheKeys
    THEN ProtoCacheKeys[baseImagePath]
    ELSE generateCacheKey(baseImagePath, actorId, TRUE)

ProtoTask(baseImagePath, frameData, actorId) ==
  [op |-> "generateFrameForPrototype", t |-> actorId, pc |-> "composite",
   frameData |-> frameData, baseImagePath |-> baseImagePath,
   cacheKey |-> protoCacheKey(baseImagePath, actorId)]

\* a variant that composites for a disabled configuration too
generateFrameForPrototype_IgnoresDisabled(W, baseImagePath, frameData, actorId) ==
  IF Get(frameData, "frameImage", Empty) = Empty \/ baseImagePath = Empty \/ actorId = Empty
    THEN [W |-> W, returned |-> TRUE, ret |-> Empty]
    ELSE [W |-> [W EXCEPT !.atasks = Append(@, ProtoTask(baseImagePath, frameData, actorId))],
          returned |-> FALSE]

\* the call up to its first suspension point: null at once, or compositeImage started
generateFrameForPrototype(W, baseImagePath, frameData, actorId) ==
  IF ~FrameActive(frameData) \/ baseImagePath = Empty \/ actorId = Empty
    THEN [W |-> W, returned |-> TRUE, ret |-> Empty]
    ELSE [W |-> [W EXCEPT !.atasks = Append(@, ProtoTask(baseImagePath, frameData, actorId))],
          returned |-> FALSE]

\* the record of a finished call: its arguments, its answer, and the documents and
\* the store before and after its last step
ProtoRecord(baseImagePath, frameData, actorId, ret, started, now, W, after, st, stAfter) ==
  [op |-> "generateFrameForPrototype", baseImagePath |-> baseImagePath,
   frameData |-> frameData, actorId |-> actorId, ret |-> ret, started |-> started,
   now |-> now, docBefore |-> W.doc, docAfter |-> after.doc,
   storeBefore |-> st, storeAfter |-> stAfter]

InitProto ==
  /\ cacheFolder \in CacheFolderSettings
  /\ design = "intercept"
  /\ \/ /\ doc = (TokenId :> Unframed) @@ (ActorId :> Unframed)
        /\ store = <<>>
     \/ /\ doc = (TokenId :> Framed(cacheFolder)) @@ (ActorId :> Unframed)
        /\ store = StoreWrite(<<>>, tokenCacheKey(ImgA, TokenId), ImgA, FDOn)
  /\ InitIdle

PrototypeCall(baseImagePath, frameData, actorId) ==
  /\ extCount < MaxExternal
  /\ extCount' = extCount + 1
  /\ LET r == generateFrameForPrototype(World, baseImagePath, frameData, actorId)
     IN /\ SetWorld(r.W)
        /\ calls' = IF r.returned
                      THEN Append(calls, ProtoRecord(baseImagePath, frameData, actorId, r.ret,
                                                     Len(r.W.atasks) > Len(atasks), Empty,
                                                     World, r.W, store, store))
                      ELSE calls
  /\ UNCHANGED <<cacheFolder, design, pureVars, store, notifVars, uploads, hook, commit>>

\* compositeImage answers; on success saveToCacheFile starts the upload, on failure
\* the call answers null
PrototypeComposite(i, ok) ==
  /\ i \in 1..Len(atasks)
  /\ atasks[i].pc = "composite"
  /\ LET task == atasks[i]
     IN IF ok
          THEN /\ atasks' = [atasks EXCEPT ![i].pc = "upload"]
               /\ SetNotif(beginNotificationSuppression(Notif))
               /\ UNCHANGED calls
          ELSE /\ atasks' = RemoveAt(atasks, i)
               /\ calls' = Append(calls, ProtoRecord(task.baseImagePath, task.frameData, task.t,
                                                     Empty, TRUE, Empty, World, World,
                                                     store, store))
               /\ UNCHANGED notifVars
  /\ UNCHANGED <<doc, cacheFolder, design, pureVars, UPDATE_LOCKS, itasks, store, uploads,
                 hook, commit, extCount>>

\* the upload answers; on success the call answers the stored path with a cache-busting
\* suffix, on failure null
PrototypeUpload(i, ok, now) ==
  /\ i \in 1..Len(atasks)
  /\ atasks[i].pc = "upload"
  /\ SetNotif(endNotificationSuppression(Notif))
  /\ atasks' = RemoveAt(atasks, i)
  /\ LET task == atasks[i]
         stored == StoreWrite(store, task.cacheKey, task.baseImagePath, task.frameData)
     IN IF ok
          THEN /\ store' = stored
               /\ calls' = Append(calls,
                                  ProtoRecord(task.baseImagePath, task.frameData, task.t,
                                              UploadPath(cacheFolder, task.cacheKey) \o CacheBust(now),
                                              TRUE, now, World, World, store, stored))
          ELSE /\ UNCHANGED store
               /\ calls' = Append(calls, ProtoRecord(task.baseImagePath, task.frameData, task.t,
                                                     Empty, TRUE, Empty, World, World,
                                                     store, store))
  /\ UNCHANGED <<doc, cacheFolder, design, pureVars, UPDATE_LOCKS, itasks, uploads,
                 hook, commit, extCount>>

NextProto ==
  \/ \E b \in ProtoBases, fd \in ProtoFrameData, a \in ProtoIds : PrototypeCall(b, fd, a)
  \/ \E i \in 1..Len(atasks), ok \in BOOLEAN : PrototypeComposite(i, ok)
  \/ \E i \in 1..Len(atasks), ok \in BOOLEAN, now \in TimeStamps : PrototypeUpload(i, ok, now)

SpecProto == InitProto /\ [][NextProto]_vars

(***************************************************************************)
(* frame-layer.js: compositeImage, and token-config.js: generatePreview.   *)
(* Scales are percentages (baseScale 0.9 is 90), offsets are pixels, and   *)
(* the arithmetic is exact: a quantity is a fraction <<n, d>> in lowest    *)
(* terms with d > 0.                                                       *)
(***************************************************************************)
Abs(n) == IF n < 0 THEN -n ELSE n

Min(a, b) == IF a <= b THEN a ELSE b

RECURSIVE Gcd(_, _)
Gcd(a, b) == IF b = 0 THEN a ELSE Gcd(b, a % b)

Rat(n, d) == LET g == Gcd(Abs(n), d) IN <<n \div g, d \div g>>

RAdd(a, b) == Rat(a[1] * b[2] + b[1] * a[2], a[2] * b[2])

RSub(a, b) == Rat(a[1] * b[2] - b[1] * a[2], a[2] * b[2])

RMul(a, b) == Rat(a[1] * b[1], a[2] * b[2])

\* a / b for b > 0
RDiv(a, b) == Rat(a[1] * b[2], a[2] * b[1])

RLess(a, b) == a[1] * b[2] < b[1] * a[2]

Pct(p) == Rat(p, 100)

MaskImg == <<"m",".","p","n","g">>

\* loadImage: the file behind a path loads or fails; no path, no image
loadImage(path, loads) == path # Empty /\ loads

\* compositeImage: the base image's rectangle
compositeBase_CentresPortrait(img, size, baseScale, baseOffsetX, baseOffsetY) ==
  LET centerX == Rat(size, 2)
      centerY == Rat(size, 2)
      baseAspect == Rat(img.width, img.height)
      wide == ~RLess(baseAspect, <<1, 1>>)
      baseDrawHeight == IF wide THEN RMul(<<size, 1>>, Pct(baseScale))
                                ELSE RDiv(RMul(<<size, 1>>, Pct(baseScale)), baseAspect)
      baseDrawWidth == IF wide THEN RMul(baseDrawHeight, baseAspect)
                               ELSE RMul(<<size, 1>>, Pct(baseScale))
      baseDrawY == RAdd(RSub(centerY, RDiv(baseDrawHeight, <<2, 1>>)), <<baseOffsetY, 1>>)
      baseDrawX == RAdd(RSub(centerX, RDiv(baseDrawWidth, <<2, 1>>)), <<baseOffsetX, 1>>)
  IN [x |-> baseDrawX, y |-> baseDrawY, width |-> baseDrawWidth, height |-> baseDrawHeight]

compositeBase(img, size, baseScale, baseOffsetX, baseOffsetY) ==
  LET centerX == Rat(size, 2)
      centerY == Rat(size, 2)
      baseAspect == Rat(img.width, img.height)
      wide == ~RLess(baseAspect, <<1, 1>>)
      baseDrawHeight == IF wide THEN RMul(<<size, 1>>, Pct(baseScale))
                                ELSE RDiv(RMul(<<size, 1>>, Pct(baseScale)), baseAspect)
      baseDrawWidth == IF wide THEN RMul(baseDrawHeight, baseAspect)
                               ELSE RMul(<<size, 1>>, Pct(baseScale))
      baseDrawY == IF wide
                     THEN RAdd(RSub(centerY, RDiv(baseDrawHeight, <<2, 1>>)), <<baseOffsetY, 1>>)
                     ELSE RAdd(RSub(centerY, RDiv(RMul(<<size, 1>>, Pct(baseScale)), <<2, 1>>)),
                               <<baseOffsetY, 1>>)
      baseDrawX == RAdd(RSub(centerX, RDiv(baseDrawWidth, <<2, 1>>)), <<baseOffsetX, 1>>)
  IN [x |-> baseDrawX, y |-> baseDrawY, width |-> baseDrawWidth, height |-> baseDrawHeight]

\* compositeImage: the mask image's square, or the circular clip path
compositeMask(maskImg, size, maskRadius, maskScale, maskOffsetX, maskOffsetY) ==
  LET centerX == Rat(size, 2)
      centerY == Rat(size, 2)
      maskDrawSize == RMul(<<size, 1>>, Pct(maskScale))
      radius == RMul(Rat(size, 2), Pct(maskRadius))
  IN IF maskImg
       THEN [kind |-> "image",
             x |-> RAdd(RSub(centerX, RDiv(maskDrawSize, <<2, 1>>)), <<maskOffsetX, 1>>),
             y |-> RAdd(RSub(centerY, RDiv(maskDrawSize, <<2, 1>>)), <<maskOffsetY, 1>>),
             extent |-> maskDrawSize]
       ELSE [kind |-> "circle",
             x |-> RAdd(centerX, <<maskOffsetX, 1>>),
             y |-> RAdd(centerY, <<maskOffsetY, 1>>),
             extent |-> radius]

\* compositeImage: the frame overlay's square
compositeFrame(size, frameScale, frameOffsetX, frameOffsetY) ==
  LET centerX == Rat(size, 2)
      centerY == Rat(size, 2)
      frameSize == RMul(<<size, 1>>, Pct(frameScale))
  IN [x |-> RAdd(RSub(centerX, RDiv(frameSize, <<2, 1>>)), <<frameOffsetX, 1>>),
      y |-> RAdd(RSub(centerY, RDiv(frameSize, <<2, 1>>)), <<frameOffsetY, 1>>),
      extent |-> frameSize]

NoDrawing == [ok |-> FALSE]

\* files: what is behind the three paths, [base : [loads, width, height], frame, mask]
compositeImage(baseImagePath, frameData, size, files) ==
  LET frameImage == Get(frameData, "frameImage", Empty)
      maskImage == Get(frameData, "maskImage", Empty)
      loaded == /\ loadImage(baseImagePath, files.base.loads)
                /\ loadImage(frameImage, files.frame)
                /\ maskImage # Empty => loadImage(maskImage, files.mask)
  IN IF ~loaded
       THEN NoDrawing
       ELSE [ok |-> TRUE,
             base |-> compositeBase(files.base, size, Get(frameData, "baseScale", 90),
                                    Get(frameData, "baseOffsetX", 0),
                                    Get(frameData, "baseOffsetY", 0)),
             mask |-> compositeMask(maskImage # Empty, size, Get(frameData, "maskRadius", 95),
                                    Get(frameData, "maskScale", 100),
                                    Get(frameData, "maskOffsetX", 0),
                                    Get(frameData, "maskOffsetY", 0)),
             frame |-> compositeFrame(size, Get(frameData, "frameScale", 100),
                                      Get(frameData, "frameOffsetX", 0),
                                      Get(frameData, "frameOffsetY", 0))]

\* generatePreview: an offset scaled to the preview, 512 taken as the full size
PreviewOffset(offset, size) == RMul(<<offset, 1>>, Rat(size, 512))

previewBase(img, size, baseScale, baseOffsetX, baseOffsetY) ==
  LET centerX == Rat(size, 2)
      centerY == Rat(size, 2)
      baseAspect == Rat(img.width, img.height)
      wide == ~RLess(baseAspect, <<1, 1>>)
      scaledBaseOffsetX == PreviewOffset(baseOffsetX, size)
      scaledBaseOffsetY == PreviewOffset(baseOffsetY, size)
      baseDrawHeight == IF wide THEN RMul(<<size, 1>>, Pct(baseScale))
                                ELSE RDiv(RMul(<<size, 1>>, Pct(baseScale)), baseAspect)
      baseDrawWidth == IF wide THEN RMul(baseDrawHeight, baseAspect)
                               ELSE RMul(<<size, 1>>, Pct(baseScale))
      baseDrawY == IF wide
                     THEN RAdd(RSub(centerY, RDiv(baseDrawHeight, <<2, 1>>)), scaledBaseOffsetY)
                     ELSE RAdd(RSub(centerY, RDiv(RMul(<<size, 1>>, Pct(baseScale)), <<2, 1>>)),
                               scaledBaseOffsetY)
      baseDrawX == RAdd(RSub(centerX, RDiv(baseDrawWidth, <<2, 1>>)), scaledBaseOffsetX)
  IN [x |-> baseDrawX, y |-> baseDrawY, width |-> baseDrawWidth, height |-> baseDrawHeight]

previewMask(maskImg, size, maskRadius, maskScale, maskOffsetX, maskOffsetY) ==
  LET centerX == Rat(size, 2)
      centerY == Rat(size, 2)
      scaledMaskOffsetX == PreviewOffset(maskOffsetX, size)
      scaledMaskOffsetY == PreviewOffset(maskOffsetY, size)
      maskDrawSize == RMul(<<size, 1>>, Pct(maskScale))
      radius == RMul(Rat(size, 2), Pct(maskRadius))
  IN IF maskImg
       THEN [kind |-> "image",
             x |-> RAdd(RSub(centerX, RDiv(maskDrawSize, <<2, 1>>)), scaledMaskOffsetX),
             y |-> RAdd(RSub(centerY, RDiv(maskDrawSize, <<2, 1>>)), scaledMaskOffsetY),
             extent |-> maskDrawSize]
       ELSE [kind |-> "circle",
             x |-> RAdd(centerX, scaledMaskOffsetX),
             y |-> RAdd(centerY, scaledMaskOffsetY),
             extent |-> radius]

previewFrame(size, frameScale, frameOffsetX, frameOffsetY) ==
  LET centerX == Rat(size, 2)
      centerY == Rat(size, 2)
      frameSize == RMul(<<size, 1>>, Pct(frameScale))
  IN [x |-> RAdd(RSub(centerX, RDiv(frameSize, <<2, 1>>)), PreviewOffset(frameOffsetX, size)),
      y |-> RAdd(RSub(centerY, RDiv(frameSize, <<2, 1>>)), PreviewOffset(frameOffsetY, size)),
      extent |-> frameSize]

\* a mask image that fails to load is dropped, every other failure answers null
generatePreview(baseImagePath, frameData, size, files) ==
  LET frameImage == Get(frameData, "frameImage", Empty)
      maskImage == Get(frameData, "maskImage", Empty)
      maskImg == maskImage # Empty /\ loadImage(maskImage, files.mask)
  IN IF baseImagePath = Empty \/ frameImage = Empty
       THEN NoDrawing
       ELSE IF ~(loadImage(baseImagePath, files.base.loads) /\ loadImage(frameImage, files.frame))
         THEN NoDrawing
         ELSE [ok |-> TRUE,
               base |-> previewBase(files.base, size, Get(frameData, "baseScale", 90),
                                    Get(frameData, "baseOffsetX", 0),
                                    Get(frameData, "baseOffsetY", 0)),
               mask |-> previewMask(maskImg, size, Get(frameData, "maskRadius", 95),
                                    Get(frameData, "maskScale", 100),
                                    Get(frameData, "maskOffsetX", 0),
                                    Get(frameData, "maskOffsetY", 0)),
               frame |-> previewFrame(size, Get(frameData, "frameScale", 100),
                                      Get(frameData, "frameOffsetX", 0),
                                      Get(frameData, "frameOffsetY", 0))]

\* a number of thousandths stored into a Uint8ClampedArray: the nearest byte, a tie
\* going to the even one
ToUint8Clamped(thousandths) ==
  LET q == thousandths \div 1000
      rest == thousandths % 1000
      nearest == IF rest < 500 THEN q
                 ELSE IF rest > 500 THEN q + 1
                 ELSE IF q % 2 = 0 THEN q ELSE q + 1
  IN IF nearest < 0 THEN 0 ELSE IF nearest > 255 THEN 255 ELSE nearest

\* a variant that takes the luminosity whatever the pixel's alpha is
maskAlpha_IgnoresAlpha(px) ==
  ToUint8Clamped(px.r * 299 + px.g * 587 + px.b * 114)

\* the mask loop's new alpha of one pixel [r, g, b, a]
maskAlpha(px) ==
  LET luminosity == px.r * 299 + px.g * 587 + px.b * 114
  IN ToUint8Clamped(Min(px.a * 1000, luminosity))

PreviewSize == 200

OutputSizes == {1000, 512}

DrawImages == {[loads |-> l, width |-> d[1], height |-> d[2]] :
                 l \in BOOLEAN, d \in {<<1, 2>>, <<1, 1>>, <<2, 1>>, <<3, 4>>}}

DrawFrameData ==
  {[enabled |-> TRUE, frameImage |-> fi, maskImage |-> mi, baseScale |-> bs,
    baseOffsetX |-> off[1], baseOffsetY |-> off[2], maskRadius |-> 95, maskScale |-> ms,
    maskOffsetX |-> off[3], maskOffsetY |-> off[4], frameScale |-> fs,
    frameOffsetX |-> off[5], frameOffsetY |-> off[6]] :
     fi \in {FrameImg, Empty}, mi \in {Empty, MaskImg}, bs \in {90, 50}, ms \in {100, 80},
     fs \in {100, 110}, off \in {<<0, 0, 0, 0, 0, 0>>, <<16, -32, 0, 0, 0, 0>>,
                                 <<0, 0, 8, 8, -4, 12>>}}

DrawInputs ==
  [baseImagePath : {ImgA, Empty}, frameData : DrawFrameData, size : OutputSizes,
   files : [base : DrawImages, frame : BOOLEAN, mask : BOOLEAN]]

PixelLevels == {0, 1, 128, 255}

Pixels == [r : PixelLevels, g : PixelLevels, b : PixelLevels, a : PixelLevels]

InitDraw ==
  /\ cacheFolder = Empty
  /\ design = "intercept"
  /\ doc = (TokenId :> Unframed)
  /\ store = <<>>
  /\ InitIdle

\* compositeImage at the cache resolution and generatePreview at the preview's size,
\* on the same arguments and the same files
DrawCalls(x) ==
  /\ drawn' = [called |-> TRUE, op |-> "draw", x |-> x,
               composite |-> compositeImage(x.baseImagePath, x.frameData, x.size, x.files),
               preview |-> generatePreview(x.baseImagePath, x.frameData, PreviewSize, x.files)]
  /\ UNCHANGED <<doc, cacheFolder, UPDATE_LOCKS, itasks, atasks, store, hook, commit, extCount,
                 calls, design, notifVars, uploads, keyed, sweep, actors, panel>>

\* the mask loop on one pixel
MaskCalls(px) ==
  /\ drawn' = [called |-> TRUE, op |-> "mask", px |-> px, alpha |-> maskAlpha(px)]
  /\ UNCHANGED <<doc, cacheFolder, UPDATE_LOCKS, itasks, atasks, store, hook, commit, extCount,
                 calls, design, notifVars, uploads, keyed, sweep, actors, panel>>

NextDraw ==
  /\ ~drawn.called
  /\ \/ \E x \in DrawInputs : DrawCalls(x)
     \/ \E px \in Pixels : MaskCalls(px)

SpecDraw == InitDraw /\ [][NextDraw]_vars

(***************************************************************************)
(* frame-layer.js: regenerateAllFrames, the maintenance sweep started by   *)
(* TokenFramerMaintenance.render.  frame-layer.js does not define it; it   *)
(* is modelled from the specification: every prototype and every placed   *)
(* token with an enabled configuration is taken in turn, one whose         *)
(* originalImage is itself a cached artifact is skipped with a warning,    *)
(* the others are composited, stored and updated, a failure is logged, and *)
(* the number of regenerated items is reported.                            *)
(***************************************************************************)
OtherTokenId == <<"T","2">>

SweepOrder == <<ActorId, TokenId, OtherTokenId>>

IsPrototype(e) == e = ActorId

EntityKey(baseImagePath, e) == generateCacheKey(baseImagePath, e, IsPrototype(e))

\* what an entity can be when the sweep starts: without a configuration, framed,
\* framed and then disabled, framed with a cached artifact recorded as its original
SweepEntityStates(e, setting) ==
  LET framed == [src |-> UploadPath(setting, EntityKey(ImgA, e)) \o CacheBust(<<"7">>),
                 frameData |-> FDOn, originalImage |-> ImgA,
                 currentCacheKey |-> EntityKey(ImgA, e), other |-> 0]
  IN {Unframed, framed, [framed EXCEPT !.frameData.enabled = FALSE],
      [framed EXCEPT !.originalImage = UploadPath(setting, EntityKey(ImgA, e))]}

InitSweep ==
  /\ cacheFolder \in CacheFolderSettings
  /\ design = "intercept"
  /\ doc \in [{ActorId, TokenId, OtherTokenId} -> UNION {SweepEntityStates(e, cacheFolder) :
                                                        e \in {ActorId, TokenId, OtherTokenId}}]
  /\ \A e \in DOMAIN doc : doc[e] \in SweepEntityStates(e, cacheFolder)
  /\ store = <<>>
  /\ InitIdle

\* the sweep starts: the entities with an enabled configuration, prototypes first
SweepStart ==
  /\ sweep.pc = "idle"
  /\ sweep' = [pc |-> "running", before |-> doc,
               todo |-> SelectSeq(SweepOrder, LAMBDA e : FrameActive(doc[e].frameData)),
               processed |-> {}, skipped |-> {}, failed |-> {}, reported |-> -1]
  /\ UNCHANGED <<doc, cacheFolder, UPDATE_LOCKS, itasks, atasks, store, hook, commit, extCount,
                 calls, design, notifVars, uploads, keyed, drawn, actors, panel>>

\* a variant that stops at the first failure
sweepAdvance_AbortsOnFailure(S, e, result) ==
  IF result = "failed"
    THEN [S EXCEPT !.todo = <<>>, !.failed = @ \cup {e}]
    ELSE [S EXCEPT !.todo = Tail(@), ![result] = @ \cup {e}]

\* the sweep's bookkeeping after one item: result is "processed", "skipped" or "failed"
sweepAdvance(S, e, result) == [S EXCEPT !.todo = Tail(@), ![result] = @ \cup {e}]

\* one item: skipped, or composited and stored and updated, or failed and logged
SweepItem(ok, now) ==
  /\ sweep.pc = "running"
  /\ sweep.todo # <<>>
  /\ LET e == Head(sweep.todo)
         base == doc[e].originalImage
         key == EntityKey(base, e)
         changes == [src |-> UploadPath(cacheFolder, key) \o CacheBust(now),
                     currentCacheKey |-> key]
         r == DocumentUpdate(World, e, changes, NoOptions, TRUE)
     IN IF isFromCache(cacheFolder, base)
          THEN /\ sweep' = sweepAdvance(sweep, e, "skipped")
               /\ UNCHANGED <<doc, UPDATE_LOCKS, itasks, atasks, store>>
          ELSE IF ~ok
            THEN /\ sweep' = sweepAdvance(sweep, e, "failed")
                 /\ UNCHANGED <<doc, UPDATE_LOCKS, itasks, atasks, store>>
            ELSE /\ sweep' = sweepAdvance(sweep, e, "processed")
                 /\ store' = StoreWrite(store, key, base, doc[e].frameData)
                 /\ IF IsPrototype(e)
                      THEN /\ doc' = [doc EXCEPT ![e] = ApplyChanges(@, changes)]
                           /\ UNCHANGED <<UPDATE_LOCKS, itasks, atasks>>
                      ELSE SetWorld(r.W)
  /\ UNCHANGED <<cacheFolder, hook, commit, extCount, calls, design, notifVars, uploads,
                 keyed, drawn, actors, panel>>

\* the work list is empty: the count is reported
SweepReport ==
  /\ sweep.pc = "running"
  /\ sweep.todo = <<>>
  /\ sweep' = [sweep EXCEPT !.pc = "done", !.reported = Cardinality(sweep.processed)]
  /\ UNCHANGED <<doc, cacheFolder, UPDATE_LOCKS, itasks, atasks, store, hook, commit, extCount,
                 calls, design, notifVars, uploads, keyed, drawn, actors, panel>>

NextSweep ==
  \/ SweepStart
  \/ \E ok \in BOOLEAN, now \in TimeStamps : SweepItem(ok, now)
  \/ SweepReport

SpecSweep == InitSweep /\ [][NextSweep]_vars

(***************************************************************************)
(* Prototype tokens.  main.js: Hooks.on('updateActor'), and token-config.js:*)
(* the Apply Frame handler's prototype branch.  An actor.update is diffed  *)
(* by the host against the actor (external collaborator): fields that do   *)
(* not change are dropped, an update without a change is not committed and *)
(* calls no hook.  generateFrameForPrototype answers in one step here.     *)
(***************************************************************************)
ActorPlain == [src |-> ImgA, frameData |-> <<>>, originalImage |-> Empty,
               cachedFramePath |-> Empty]

ActorFramed(setting) ==
  LET path == UploadPath(setting, generateCacheKey(ImgA, ActorId, TRUE)) \o CacheBust(<<"7">>)
  IN [src |-> path, frameData |-> FDOn, originalImage |-> ImgA, cachedFramePath |-> path]

ActorTimeStamps == {<<"7">>, <<"8">>}

ActorCommit(a, changes) ==
  [ src             |-> Get(changes, "src", a.src),
    frameData       |-> IF Has(changes, "-=frameData") THEN <<>>
                        ELSE IF Has(changes, "frameData") THEN changes.frameData @@ a.frameData
                        ELSE a.frameData,
    originalImage   |-> IF Has(changes, "-=originalImage") THEN Empty
                        ELSE Get(changes, "originalImage", a.originalImage),
    cachedFramePath |-> IF Has(changes, "-=cachedFramePath") THEN Empty
                        ELSE Get(changes, "cachedFramePath", a.cachedFramePath) ]

\* the part of an update that changes the actor
ActorDiff(a, changes) ==
  [k \in {f \in DOMAIN changes : ActorCommit(a, Field(f, changes[f])) # a} |-> changes[k]]

ActorTask(caller, pending) ==
  [op |-> caller, t |-> ActorId, pc |-> "update", caller |-> caller, pending |-> pending]

\* a call of generateFrameForPrototype by caller: the task it leaves, or null at once
CallGenerate(W, caller, baseImagePath, frameData) ==
  LET r == generateFrameForPrototype(W, baseImagePath, frameData, ActorId)
      n == Len(r.W.atasks)
  IN IF r.returned
       THEN r
       ELSE [r EXCEPT !.W.atasks[n] = @ @@ [caller |-> caller, pending |-> <<>>]]

\* a variant that reacts to every change of the module's prototype flags
updateActor_AnyModuleFlag(W, a, changes, sameUser) ==
  LET frameDataChanged == Has(changes, "frameData")
      originalImageChanged == Has(changes, "originalImage") \/ Has(changes, "cachedFramePath")
      frameData == a.frameData
      originalImage == IF a.originalImage # Empty THEN a.originalImage ELSE a.src
  IN IF ~sameUser THEN W
     ELSE IF ~frameDataChanged /\ ~originalImageChanged THEN W
     ELSE IF FrameActive(frameData)
       THEN IF originalImage = Empty THEN W
            ELSE IF Includes(originalImage, getCacheFolder(cacheFolder))
                      \/ Includes(originalImage, TokenFramerCache) THEN W
            ELSE CallGenerate(W, "updateActor", originalImage, frameData).W
     ELSE IF frameData # <<>> /\ Get(frameData, "enabled", FALSE) # TRUE
       THEN IF a.originalImage # Empty
              THEN [W EXCEPT !.atasks =
                      Append(@, ActorTask("updateActor",
                                          [src |-> a.originalImage]
                                            @@ Field("-=cachedFramePath", TRUE)
                                            @@ Field("-=originalImage", TRUE)
                                            @@ Field("-=currentCacheKey", TRUE)))]
              ELSE W
     ELSE W

\* Hooks.on('updateActor') on the committed actor a, up to its first await
updateActor(W, a, changes, sameUser) ==
  LET frameDataChanged == Has(changes, "frameData")
      originalImageChanged == Has(changes, "originalImage")
      frameData == a.frameData
      originalImage == IF a.originalImage # Empty THEN a.originalImage ELSE a.src
  IN IF ~sameUser THEN W
     ELSE IF ~frameDataChanged /\ ~originalImageChanged THEN W
     ELSE IF FrameActive(frameData)
       THEN IF originalImage = Empty THEN W
            ELSE IF Includes(originalImage, getCacheFolder(cacheFolder))
                      \/ Includes(originalImage, TokenFramerCache) THEN W
            ELSE CallGenerate(W, "updateActor", originalImage, frameData).W
     ELSE IF frameData # <<>> /\ Get(frameData, "enabled", FALSE) # TRUE
       THEN IF a.originalImage # Empty
              THEN [W EXCEPT !.atasks =
                      Append(@, ActorTask("updateActor",
                                          [src |-> a.originalImage]
                                            @@ Field("-=cachedFramePath", TRUE)
                                            @@ Field("-=originalImage", TRUE)
                                            @@ Field("-=currentCacheKey", TRUE)))]
              ELSE W
     ELSE W

\* actor.update(changes): the host's diff and commit, then the hook
ActorUpdate(W, a, changes, sameUser) ==
  LET diff == ActorDiff(a, changes)
      committed == ActorCommit(a, diff)
  IN IF DOMAIN diff = {}
       THEN [W |-> W, actor |-> a, committed |-> FALSE, changes |-> diff]
       ELSE [W |-> updateActor(W, committed, diff, sameUser), actor |-> committed,
             committed |-> TRUE, changes |-> diff]

ActorCommitRecord(origin, W, r) ==
  IF r.committed
    THEN [done |-> TRUE, t |-> ActorId, origin |-> origin, changes |-> r.changes,
          started |-> Len(r.W.atasks) > Len(W.atasks)]
    ELSE NoCommit

ExternalActorChanges ==
  {[frameData |-> FDOn], [frameData |-> [baseScale |-> 80]], [frameData |-> [enabled |-> FALSE]],
   [originalImage |-> ImgB], [src |-> ImgB]}

InitActor ==
  /\ cacheFolder \in CacheFolderSettings
  /\ design = "intercept"
  /\ doc = (TokenId :> Unframed)
  /\ store = <<>>
  /\ InitIdleButActors
  /\ actors \in {ActorId :> ActorPlain, ActorId :> ActorFramed(cacheFolder)}

\* the one change of the prototype that comes from outside the module
ExternalActorUpdate(changes) ==
  /\ extCount = 0
  /\ extCount' = extCount + 1
  /\ LET r == ActorUpdate(World, actors[ActorId], changes, TRUE)
     IN /\ SetWorld(r.W)
        /\ actors' = [actors EXCEPT ![ActorId] = r.actor]
        /\ commit' = ActorCommitRecord("external", World, r)
  /\ UNCHANGED <<cacheFolder, design, keyed, drawn, sweep, panel, calls, store, notifVars, uploads,
                 hook>>

\* token-config.js: a click on Apply Frame in the prototype token's configuration
ApplyFramePrototypeClick(basePath, formData) ==
  /\ extCount = 0
  /\ extCount' = extCount + 1
  /\ LET r == CallGenerate(World, "applyFrame", basePath, formData)
         n == Len(r.W.atasks)
     IN IF r.returned
          THEN atasks' = Append(atasks, ActorTask("applyFrame", [frameData |-> formData]))
          ELSE atasks' = [r.W.atasks EXCEPT ![n] = @ @@ [formData |-> formData]]
  /\ commit' = NoCommit
  /\ UNCHANGED <<doc, UPDATE_LOCKS, itasks, actors, cacheFolder, design, keyed, drawn, sweep, panel,
                 calls, store, notifVars, uploads, hook>>

\* generateFrameForPrototype answers its caller: a path, or null
ActorGenerate(i, ok, now) ==
  /\ i \in 1..Len(atasks)
  /\ atasks[i].pc = "composite"
  /\ LET task == atasks[i]
         cachedPath == UploadPath(cacheFolder, task.cacheKey) \o CacheBust(now)
     IN /\ store' = IF ok
                      THEN StoreWrite(store, task.cacheKey, task.baseImagePath, task.frameData)
                      ELSE store
        /\ atasks' =
             IF task.caller = "updateActor"
               THEN IF ok
                      THEN [atasks EXCEPT ![i] =
                              ActorTask("updateActor",
                                        [src |-> cachedPath, cachedFramePath |-> cachedPath,
                                         originalImage |-> task.baseImagePath])]
                      ELSE RemoveAt(atasks, i)
               ELSE IF ok
                      THEN [atasks EXCEPT ![i] =
                              ActorTask("applyFrame",
                                        [src |-> cachedPath, frameData |-> task.formData,
                                         cachedFramePath |-> cachedPath,
                                         originalImage |-> task.baseImagePath])]
                      ELSE [atasks EXCEPT ![i] =
                              ActorTask("applyFrame", [frameData |-> task.formData])]
  /\ commit' = NoCommit
  /\ UNCHANGED <<doc, UPDATE_LOCKS, itasks, actors, cacheFolder, design, keyed, drawn, sweep, panel,
                 calls, notifVars, uploads, hook, extCount>>

\* the actor.update of updateActor or of the Apply Frame handler reaches the host
ActorUpdateStep(i) ==
  /\ i \in 1..Len(atasks)
  /\ atasks[i].pc = "update"
  /\ LET task == atasks[i]
         W0 == [World EXCEPT !.atasks = RemoveAt(@, i)]
         r == ActorUpdate(W0, actors[ActorId], task.pending, TRUE)
     IN /\ SetWorld(r.W)
        /\ actors' = [actors EXCEPT ![ActorId] = r.actor]
        /\ commit' = ActorCommitRecord(task.caller, W0, r)
  /\ UNCHANGED <<cacheFolder, design, keyed, drawn, sweep, panel, calls, store, notifVars, uploads,
                 hook, extCount>>

ActorContinue ==
  \/ \E i \in 1..Len(atasks), ok \in BOOLEAN, now \in ActorTimeStamps : ActorGenerate(i, ok, now)
  \/ \E i \in 1..Len(atasks) : ActorUpdateStep(i)

NextActor ==
  \/ \E changes \in ExternalActorChanges : ExternalActorUpdate(changes)
  \/ \E b \in RawImages, fd \in FormData : ApplyFramePrototypeClick(b, fd)
  \/ ActorContinue

FairActor == InitActor /\ [][NextActor]_vars /\ WF_vars(ActorContinue)

(***************************************************************************)
(* Properties.                                                             *)
(***************************************************************************)
InCacheNamespace(path) == StartsWith(path, getCacheFolder(cacheFolder) \o <<"/">>)

ReissueCalled == hook.called /\ hook.origin = "reissue"

CancelConditions ==
  LET changes == hook.changes
      src == Get(changes, "src", Empty)
      update == Get(changes, "frameData", <<>>)
      merged == [f \in DOMAIN update \cup DOMAIN hook.before.frameData |->
                   IF f \in DOMAIN update THEN update[f] ELSE hook.before.frameData[f]]
  IN /\ hook.isOwner
     /\ ~hook.locked
     /\ "-=frameData" \notin DOMAIN changes
     /\ src # Empty
     /\ cacheFolder # Empty => ~Includes(src, cacheFolder)
     /\ ~Includes(src, TokenFramerCache)
     /\ ~("enabled" \in DOMAIN update /\ update.enabled = FALSE)
     /\ "enabled" \in DOMAIN merged /\ merged.enabled = TRUE
     /\ "frameImage" \in DOMAIN merged /\ merged.frameImage # Empty

\* C2: preUpdateToken returns false and starts one generation exactly when the client
\* owns the document, no lock is held, frameData is not deleted, a new texture.src is
\* carried that is outside the cache folder names, enabled is not set to false and
\* the merged configuration is enabled with a frame image; otherwise it returns true
\* and starts nothing.
C2_CancelsExactlyWhen ==
  hook.called =>
    /\ (hook.ret = FALSE) <=> CancelConditions
    /\ hook.started = (IF hook.ret THEN 0 ELSE 1)

C2_Witness ==
  /\ hook.called
  /\ ~hook.ret
  /\ ~FrameActive(hook.before.frameData)
  /\ Has(hook.changes, "frameData")
  /\ Len(itasks) > 0

\* C3: the update performAsyncFrameUpdate re-issues passes preUpdateToken and starts
\* no generation; the replacement is tagged in its options only and does not make
\* the reactor call applyFrameToToken.
C3_ReissueNeverReintercepted ==
  ReissueCalled =>
    /\ hook.ret
    /\ hook.started = 0
    /\ hook.outcome = "ok" =>
         /\ Get(hook.options, "tokenFramerIntercepted", FALSE)
         /\ "tokenFramerIntercepted" \notin DOMAIN hook.changes
         /\ commit.done => ~commit.applied

\* what a call of performAsyncFrameUpdate submits: the replacement or the original
SubmitsReplacementOrOriginal ==
  ReissueCalled =>
    IF hook.outcome = "ok"
      THEN hook.changes =
             Replacement(hook.received,
                         [path |-> hook.changes.src, key |-> hook.changes.currentCacheKey],
                         hook.baseImage)
      ELSE hook.changes = hook.received

\* an interception ends by the submission of its update and in no other way
EndsBySubmission ==
  Len(itasks') = Len(itasks) + (IF hook'.called THEN hook'.started ELSE 0)
                             - (IF hook'.called /\ hook'.origin = "reissue" THEN 1 ELSE 0)

ReplacementFields == {"src", "originalImage", "currentCacheKey"}

\* C5: the replacement carries every field of the original changes unchanged except
\* texture.src (the generated path), originalImage (the intercepted base image) and
\* currentCacheKey (the generated key); the original changes are left as received.
C5_ReplacementCarriesFields ==
  \A i \in 1..Len(itasks) :
    LET task == itasks[i]
    IN (task.pc = "update" /\ task.outcome = "ok") =>
         /\ DOMAIN task.pending = DOMAIN task.received \cup ReplacementFields
         /\ task.pending.src = task.result.path
         /\ task.pending.originalImage = task.baseImage
         /\ task.pending.currentCacheKey = task.result.key
         /\ \A f \in DOMAIN task.received \ ReplacementFields :
              task.pending[f] = task.received[f]
         /\ task.originalChanges = task.received

C5_Witness ==
  \E i \in 1..Len(itasks) :
    /\ itasks[i].pc = "update"
    /\ itasks[i].outcome = "ok"
    /\ Has(itasks[i].received, "frameData")
    /\ Has(itasks[i].received, "other")
    /\ itasks[i].pending.other = 1

\* C6: at most one interception of an entity is outstanding at any time.
C6_OneOutstandingInterception ==
  \A t \in DOMAIN doc : Cardinality({i \in 1..Len(itasks) : itasks[i].t = t}) <= 1

Disabling(changes) ==
  \/ Has(changes, "-=frameData")
  \/ Has(changes, "frameData") /\ Get(changes.frameData, "enabled", TRUE) = FALSE

\* C7: an update that deletes frameData or sets enabled to false passes
\* preUpdateToken, starts no generation and is committed as submitted.
C7_DisablingPasses ==
  (hook.called /\ Disabling(hook.changes)) =>
    /\ hook.ret
    /\ hook.started = 0
    /\ hook.isOwner => commit.done /\ commit.changes = hook.changes

C7_Witness ==
  /\ hook.called
  /\ Has(hook.changes, "-=frameData")
  /\ Get(hook.changes, "src", Empty) \in RawImages
  /\ FrameActive(hook.before.frameData)
  /\ ~hook.locked
  /\ hook.isOwner
  /\ commit.done

\* C8: a write of the module itself (the originalImage flag, the final texture
\* update, the re-issued update) does not make the reactor regenerate again.
C8_OwnWritesDoNotRegenerate ==
  (commit.done /\ commit.origin \in {"setFlag", "apply", "reissue"}) => ~commit.applied

KeyMatchesImage(d) ==
  IF isFromCache(cacheFolder, d.src)
    THEN /\ d.currentCacheKey # Empty
         /\ StartsWith(d.src, UploadPath(cacheFolder, d.currentCacheKey))
    ELSE d.currentCacheKey = Empty

\* C9: an update of the module (interception with success or fallback,
\* applyFrameToToken, restoreOriginalImage) committed on a token where a cached
\* displayed image has the key that produced it and a displayed image outside the
\* cache has no key, leaves the token so.
C9_KeyMatchesDisplayedImage ==
  (/\ commit.done
   /\ commit.origin \in {"reissue", "apply", "restore", "setFlag"}
   /\ KeyMatchesImage(hook.before)) =>
    KeyMatchesImage(doc[commit.t])

InFlight == {u \in 1..NumUploads : uploads[u] = "upload"}

\* C10: while uploads are in flight ui.notifications.info is the no-op; the original
\* is captured only by an upload that begins when none is in flight, and is restored
\* only by the completion that leaves none in flight.
C10_SuppressedUntilLastUpload ==
  /\ [](InFlight # {} => uiInfo = "noop" /\ originalNotificationInfo = "original")
  /\ [](InFlight = {} => uiInfo = "original" /\ originalNotificationInfo = "null")
  /\ [][(originalNotificationInfo = "null" /\ originalNotificationInfo' # "null")
          => InFlight = {} /\ Cardinality(InFlight') = 1]_vars
  /\ [][(uiInfo = "noop" /\ uiInfo' = "original") => InFlight # {} /\ InFlight' = {}]_vars

C10_Witness ==
  /\ Cardinality(InFlight) >= 2
  /\ notificationSuppressionCount >= 2
  /\ \E u \in 1..NumUploads : uploads[u] \in {"resolved", "rejected"}
  /\ uiInfo = "noop"

\* C11: notificationSuppressionCount is never negative and equals the number of
\* saveToCacheFile calls between their begin and their end; every begin adds one and
\* every completion, resolved or rejected, takes one away; with no upload in flight
\* the counter is 0 and ui.notifications.info is the original function.
C11_CounterMatchesUploads ==
  /\ [](notificationSuppressionCount >= 0)
  /\ [](notificationSuppressionCount = Cardinality(InFlight))
  /\ [](InFlight = {} => notificationSuppressionCount = 0 /\ uiInfo = "original")
  /\ [][\A u \in 1..NumUploads :
          /\ (uploads[u] = "ensure" /\ uploads'[u] = "upload") =>
               notificationSuppressionCount' = notificationSuppressionCount + 1
          /\ (uploads[u] = "upload" /\ uploads'[u] \in {"resolved", "rejected"}) =>
               notificationSuppressionCount' = notificationSuppressionCount - 1]_vars

C11_Witness ==
  /\ \E u \in 1..NumUploads : uploads[u] = "rejected"
  /\ \E u \in 1..NumUploads : uploads[u] = "resolved"
  /\ InFlight = {}
  /\ notificationSuppressionCount = 0
  /\ uiInfo = "original"

ApplyCalls == {k \in 1..Len(calls) : calls[k].op = "apply"}

Quiescent == itasks = <<>> /\ atasks = <<>>

\* applyFrameToToken called with nothing in flight, and restoreOriginalImage called
\* right after the final update of the apply was committed
ApplyThenRestore ==
  /\ Len(calls) = 2
  /\ calls[1].op = "apply"
  /\ calls[1].idle
  /\ FrameActive(calls[1].before.frameData)
  /\ calls[2].op = "restore"
  /\ calls[2].idle
  /\ calls[2].follows = "apply"

\* C13: for every token state, applyFrameToToken with an enabled configuration and a
\* successful generation, followed immediately by restoreOriginalImage, leaves the
\* displayed image equal to its value before the apply.
C13_ApplyThenRestoreIsIdentity ==
  (ApplyThenRestore /\ Quiescent) => doc[calls[1].t].src = calls[1].before.src

RestoreCalls == {k \in 1..Len(calls) : calls[k].op = "restore"}

\* C14: restoreOriginalImage is idempotent: on a token without originalImage it issues
\* no update; called twice in a row, the second call after the first has run to its
\* end, the second call issues no update and the token stays as the first left it.
C14_RestoreIsIdempotent ==
  /\ \A k \in RestoreCalls :
       calls[k].before.originalImage = Empty => calls[k].spawned = "none"
  /\ (Len(calls) = 2 /\ RestoreCalls = {1, 2} /\ calls[1].idle /\ calls[2].idle) =>
       /\ calls[2].spawned = "none"
       /\ doc[calls[2].t] = calls[2].before

RestoreCommitted == commit.done /\ commit.origin = "restore"

\* C15: when originalImage is recorded, the restore of a placed token sets the
\* displayed image back to it and clears the frame state: currentCacheKey,
\* originalImage and, for the Restore Original button, the configuration itself.
C15_RestoreClearsFrameState ==
  RestoreCommitted =>
    /\ doc[commit.t].src = hook.before.originalImage
    /\ doc[commit.t].currentCacheKey = Empty
    /\ doc[commit.t].originalImage = Empty
    /\ doc[commit.t].frameData = <<>>

\* C16: applyFrameToToken on a token whose configuration is disabled or has no frame
\* image starts no compositing and writes nothing to the store; when the token has
\* an originalImage other than its displayed image the call issues one update, which
\* is committed and sets the displayed image to originalImage and clears
\* currentCacheKey; otherwise it issues nothing.
C16_DisabledApplyRestores ==
  /\ \A k \in ApplyCalls :
       ~FrameActive(calls[k].before.frameData) =>
         calls[k].spawned =
           (IF /\ calls[k].before.originalImage # Empty
               /\ calls[k].before.src # calls[k].before.originalImage
              THEN "restore" ELSE "none")
  /\ (\A t \in DOMAIN doc : ~FrameActive(doc[t].frameData)) =>
       /\ itasks = <<>>
       /\ \A i \in 1..Len(atasks) : atasks[i].pc = "restore"
       /\ \A k \in DOMAIN store : store[k].base = ImgA /\ store[k].frameData = FDOn
  /\ (hook.called /\ hook.origin = "restore" /\ ~FrameActive(hook.before.frameData)) =>
       /\ hook.ret
       /\ hook.started = 0
       /\ commit.done
       /\ doc[hook.t].src = hook.before.originalImage
       /\ doc[hook.t].currentCacheKey = Empty

C16_Witness ==
  /\ Len(calls) = 1
  /\ calls[1].op = "apply"
  /\ Get(calls[1].before.frameData, "enabled", TRUE) = FALSE
  /\ InCacheNamespace(calls[1].before.src)
  /\ RestoreCommitted
  /\ doc[TokenId].src = ImgA
  /\ doc[TokenId].currentCacheKey = Empty
  /\ Quiescent

\* an update that sets enabled to false was committed on a token displaying an artifact
DisablingCommitted ==
  /\ commit.done
  /\ hook.called
  /\ Has(commit.changes, "frameData")
  /\ Get(commit.changes.frameData, "enabled", TRUE) = FALSE
  /\ ~Has(commit.changes, "src")
  /\ isFromCache(cacheFolder, hook.before.src)
  /\ hook.before.originalImage # Empty

\* C17: once an update that disables the configuration is committed on a token that
\* displays a cached artifact, the token comes to display originalImage with
\* currentCacheKey cleared: when nothing is in flight after the commit, it does.
C17_DisablingRestores ==
  (DisablingCommitted /\ Quiescent) =>
    /\ doc[commit.t].src = hook.before.originalImage
    /\ doc[commit.t].currentCacheKey = Empty

GenerationFailed == Get(hook, "failed", FALSE)

\* C18 as stated: when compositeImage or the upload fails inside applyFrameToToken,
\* the call has written no attribute of the token.
C18_FailureWritesNothing ==
  GenerationFailed => hook.wrote = {}

\* C18 as amended: when compositeImage or the upload fails inside applyFrameToToken,
\* the call has issued no update of texture.src or currentCacheKey; the only
\* attribute it may have written is originalImage, recorded before compositing when
\* none was stored.  A single call on a token with originalImage recorded leaves the
\* token exactly as it was.
C18_FailureWritesOnlyOriginalImage ==
  /\ GenerationFailed => hook.wrote \subseteq {"originalImage"}
  /\ (/\ GenerationFailed
      /\ Len(calls) = 1
      /\ calls[1].op = "apply"
      /\ calls[1].before.originalImage # Empty) =>
       /\ hook.wrote = {}
       /\ doc[calls[1].t] = calls[1].before

C18_Witness ==
  /\ GenerationFailed
  /\ hook.stage = "upload"
  /\ hook.wrote = {"originalImage"}
  /\ Len(calls) = 1
  /\ calls[1].before.originalImage = Empty
  /\ doc[hook.t].originalImage = calls[1].before.src
  /\ doc[hook.t].src = calls[1].before.src
  /\ doc[hook.t].currentCacheKey = Empty

\* C19: no failure escapes performAsyncFrameUpdate: whatever fails, also the re-issued
\* or the fallback document.update itself, the call ends without a rejected promise.
C19_NoFailureEscapes ==
  Get(hook, "rejected", FALSE) => ~hook.escaped

\* the first external update, by the owner, has just given a framed token the raw
\* base image b and left its configuration enabled
NewBaseArrived(b) ==
  /\ extCount = 1
  /\ hook.called
  /\ hook.origin = "external"
  /\ hook.isOwner
  /\ Get(hook.changes, "src", Empty) = b
  /\ ~Disabling(hook.changes)
  /\ FrameActive(hook.before.frameData)
  /\ isFromCache(cacheFolder, hook.before.src)

\* nothing is in flight and the token displays the stored artifact composited from b
FramedFrom(b) ==
  LET key == tokenCacheKey(b, TokenId)
  IN /\ Quiescent
     /\ doc[TokenId].originalImage = b
     /\ doc[TokenId].currentCacheKey = key
     /\ \E now \in TimeStamps :
          doc[TokenId].src = UploadPath(cacheFolder, key) \o CacheBust(now)
     /\ key \in DOMAIN store
     /\ store[key].base = b

\* a generation has failed, or a second mutation has come from outside
OutsideTheCase ==
  \/ extCount > 1
  \/ GenerationFailed
  \/ \E i \in 1..Len(itasks) : itasks[i].outcome \in {"null", "throw"}

\* C20: after an external change of a framed token's art to a new raw base image,
\* with the configuration enabled, every generation succeeding and no further
\* mutation from outside, the system reaches a state with nothing in flight in which
\* originalImage is the new base image and the displayed image is the stored
\* artifact composited from it, in the Stop & Swap design and in the flag-based one.
C20_NewBaseIsFramed ==
  \A b \in RawImages : NewBaseArrived(b) ~> (FramedFrom(b) \/ OutsideTheCase)

C20_Witness ==
  /\ design = "flag"
  /\ extCount = 1
  /\ FramedFrom(ImgB)
  /\ commit.done
  /\ commit.origin = "apply"

C20_WitnessIntercept ==
  /\ design = "intercept"
  /\ extCount = 1
  /\ FramedFrom(ImgB)
  /\ commit.done
  /\ commit.origin = "reissue"

\* C21: once every regeneration set going by the writes to a token has completed,
\* the artifact stored under the token's current key was composited from the last
\* committed frameData and the last committed originalImage.
C21_CacheInSyncWhenQuiescent ==
  \A t \in DOMAIN doc :
    (/\ Quiescent
     /\ FrameActive(doc[t].frameData)
     /\ doc[t].currentCacheKey # Empty) =>
      /\ doc[t].currentCacheKey \in DOMAIN store
      /\ store[doc[t].currentCacheKey].base = doc[t].originalImage
      /\ store[doc[t].currentCacheKey].frameData = doc[t].frameData

\* the regenerations of token t that are between their start and their final update
Regenerating(t) ==
  Cardinality({i \in 1..Len(atasks) :
                 atasks[i].t = t /\ atasks[i].pc \in {"composite", "upload", "update"}})
    + Cardinality({i \in 1..Len(itasks) : itasks[i].t = t})

\* C22: for one token, two regenerations (composite, store and update, started by
\* applyFrameToToken or by performAsyncFrameUpdate) are never in flight at once.
C22_OneRegenerationPerToken ==
  \A t \in DOMAIN doc : Regenerating(t) <= 1

SameEntity == keyed.x.id = keyed.y.id /\ keyed.x.isPrototype = keyed.y.isPrototype

\* the file names of KeyStems after sanitizing, written out
SanitizedStem ==
  (<<"a">> :> <<"a">>) @@ (<<"b"," ","c">> :> <<"b","_","c">>)
    @@ (<<"b","_","c">> :> <<"b","_","c">>) @@ (<<"a",".","b">> :> <<"a","_","b">>)
    @@ (<<"A","-","1","#">> :> <<"A","-","1","_">>)

\* C23: generateCacheKey depends on its arguments only: equal arguments give equal
\* keys; two paths that differ only in the file extension give the same key; for
\* the same id and role, two paths whose sanitized file names differ give different
\* keys.
C23_KeyIgnoresExtensionOnly ==
  keyed.called =>
    /\ (SameEntity /\ KeyPath(keyed.x) = KeyPath(keyed.y)) => keyed.kx = keyed.ky
    /\ (SameEntity /\ keyed.x.dir = keyed.y.dir /\ keyed.x.stem = keyed.y.stem) =>
         keyed.kx = keyed.ky
    /\ (SameEntity /\ SanitizedStem[keyed.x.stem] # SanitizedStem[keyed.y.stem]) =>
         keyed.kx # keyed.ky

C23_Witness ==
  /\ keyed.called
  /\ SameEntity
  /\ keyed.x.dir = keyed.y.dir
  /\ keyed.x.stem = <<"a",".","b">>
  /\ keyed.y.stem = <<"a",".","b">>
  /\ keyed.x.ext = <<".","p","n","g">>
  /\ keyed.y.ext = <<".","j","p","g">>
  /\ keyed.kx = keyed.ky

RoleName(isPrototype) ==
  IF isPrototype THEN <<"p","r","o","t","o">> ELSE <<"t","o","k","e","n">>

\* the key the format 'frame_<role>_<id>_<sanitized file name>' gives for input x
FormatKey(x) ==
  <<"f","r","a","m","e","_">> \o RoleName(x.isPrototype) \o <<"_">> \o x.id \o <<"_">>
    \o SanitizedStem[x.stem]

\* C24: the key generateCacheKey returns is 'frame_' + role + '_' + id + '_' + s, with
\* role 'proto' for a prototype and 'token' otherwise and s the file name without
\* directory and last extension, every character outside letters, digits, '_' and
\* '-' replaced by '_'; the artifact is stored under that key with '.webp' appended.
C24_KeyFormat ==
  keyed.called =>
    /\ keyed.kx = FormatKey(keyed.x)
    /\ keyed.ky = FormatKey(keyed.y)
    /\ UploadPath(cacheFolder, keyed.kx) =
         getCacheFolder(cacheFolder) \o <<"/">> \o FormatKey(keyed.x) \o <<".","w","e","b","p">>

C24_Witness ==
  /\ keyed.called
  /\ keyed.x.isPrototype
  /\ keyed.x.dir = <<"j","/","k",".","d","/">>
  /\ keyed.x.stem = <<"A","-","1","#">>
  /\ keyed.x.ext = <<>>
  /\ keyed.kx = <<"f","r","a","m","e","_","p","r","o","t","o","_","T","1","_","A","-","1","_">>

\* C25: for one entity and role, any two different base image paths give different
\* keys.
C25_DifferentPathsDifferentKeys ==
  (keyed.called /\ SameEntity /\ KeyPath(keyed.x) # KeyPath(keyed.y)) =>
    keyed.kx # keyed.ky

\* C26: two entities of the same role with different ids and the same base file name
\* get two different keys, and their artifacts two different file names.
C26_DifferentIdsDifferentKeys ==
  (/\ keyed.called
   /\ keyed.x.isPrototype = keyed.y.isPrototype
   /\ keyed.x.id # keyed.y.id
   /\ keyed.x.stem = keyed.y.stem) =>
    /\ keyed.kx # keyed.ky
    /\ UploadPath(cacheFolder, keyed.kx) # UploadPath(cacheFolder, keyed.ky)

C26_Witness ==
  /\ keyed.called
  /\ keyed.x.isPrototype = keyed.y.isPrototype
  /\ keyed.x.id = TokenId
  /\ keyed.y.id = <<"T","2">>
  /\ KeyPath(keyed.x) = KeyPath(keyed.y)
  /\ keyed.kx # keyed.ky

ProtoCalls == {k \in 1..Len(calls) : calls[k].op = "generateFrameForPrototype"}

\* the key 'frame_proto_<actor id>_<sanitized file name>' of a base image of the model
ProtoKeyOf(baseImagePath, actorId) ==
  <<"f","r","a","m","e","_","p","r","o","t","o","_">> \o actorId \o <<"_">>
    \o (IF baseImagePath = ImgA THEN <<"a">> ELSE <<"b","_","c">>)

ProtoInputsMissing(c) ==
  \/ Get(c.frameData, "enabled", FALSE) # TRUE
  \/ Get(c.frameData, "frameImage", Empty) = Empty
  \/ c.baseImagePath = Empty
  \/ c.actorId = Empty

\* C27: generateFrameForPrototype leaves every token and actor as it was; a call that
\* answers a path has stored exactly one artifact, under the key of the prototype role
\* and the actor id, and answers that artifact's path; a call with a disabled
\* configuration or without frameImage, baseImagePath or actorId answers null and has
\* neither composited nor stored anything.
C27_PrototypeOnlyStores ==
  \A k \in ProtoCalls :
    LET c == calls[k]
        key == ProtoKeyOf(c.baseImagePath, c.actorId)
    IN /\ c.docAfter = c.docBefore
       /\ doc = c.docBefore
       /\ ProtoInputsMissing(c) => c.ret = Empty /\ ~c.started /\ c.storeAfter = c.storeBefore
       /\ c.ret = Empty => c.storeAfter = c.storeBefore
       /\ c.ret # Empty =>
            /\ c.ret = getCacheFolder(cacheFolder) \o <<"/">> \o key \o WebpExt \o CacheBust(c.now)
            /\ DOMAIN c.storeAfter = DOMAIN c.storeBefore \cup {key}
            /\ c.storeAfter[key] = [base |-> c.baseImagePath, frameData |-> c.frameData]
            /\ \A f \in DOMAIN c.storeBefore \ {key} : c.storeAfter[f] = c.storeBefore[f]

\* a call with a disabled configuration answered null, and a call with every input
\* present stored its artifact next to the token's
C27_Witness ==
  /\ Len(calls) = 2
  /\ calls[1].op = "generateFrameForPrototype"
  /\ calls[1].frameData = [FDOn EXCEPT !.enabled = FALSE]
  /\ calls[1].baseImagePath = ImgB
  /\ calls[1].actorId = ActorId
  /\ calls[1].ret = Empty
  /\ calls[2].ret # Empty
  /\ calls[2].baseImagePath = ImgB
  /\ Cardinality(DOMAIN store) = 2

DrawCalled == drawn.called /\ drawn.op = "draw"

\* quantity p of the preview is quantity c of compositeImage scaled by
\* previewSize / outputSize
ScaledToPreview(p, c) == p = RMul(c, Rat(PreviewSize, drawn.x.size))

\* C28: generatePreview fails or succeeds with compositeImage on the same inputs, and
\* each placement quantity of the preview (base position and size, mask position or
\* centre, mask size or radius, frame position and size) is compositeImage's quantity
\* scaled by previewSize / outputSize.
C28_PreviewIsScaledComposite ==
  DrawCalled =>
    /\ drawn.preview.ok = drawn.composite.ok
    /\ (drawn.preview.ok /\ drawn.composite.ok) =>
         /\ drawn.preview.mask.kind = drawn.composite.mask.kind
         /\ \A part \in {"base", "mask", "frame"} :
              \A q \in DOMAIN drawn.composite[part] \ {"kind"} :
                ScaledToPreview(drawn.preview[part][q], drawn.composite[part][q])

MaskCalled == drawn.called /\ drawn.op = "mask"

\* C29: the mask loop sets a pixel's alpha to min(original alpha, luminosity), with
\* luminosity 0.299 R + 0.587 G + 0.114 B, stored as the nearest byte: white with alpha
\* 255 gets 255, black gets 0, white with alpha 128 gets at most 128, and no pixel's
\* alpha grows.
C29_MaskAlphaIsMin ==
  MaskCalled =>
    LET px == drawn.px
        lum == 299 * px.r + 587 * px.g + 114 * px.b
        least == IF 1000 * px.a <= lum THEN 1000 * px.a ELSE lum
    IN /\ drawn.alpha \in 0..255
       /\ 2 * Abs(1000 * drawn.alpha - least) <= 1000
       /\ drawn.alpha <= px.a
       /\ (px.r = 255 /\ px.g = 255 /\ px.b = 255 /\ px.a = 255) => drawn.alpha = 255
       /\ (px.r = 0 /\ px.g = 0 /\ px.b = 0) => drawn.alpha = 0
       /\ (px.r = 255 /\ px.g = 255 /\ px.b = 255 /\ px.a = 128) => drawn.alpha <= 128

\* a white pixel of alpha 128 keeps alpha 128
C29_Witness ==
  /\ MaskCalled
  /\ drawn.px = [r |-> 255, g |-> 255, b |-> 255, a |-> 128]
  /\ drawn.alpha = 128

\* C30: compositeImage draws a portrait base image (width / height < 1) outputSize *
\* baseScale wide with its top edge at center - outputSize * baseScale / 2 +
\* baseOffsetY, whatever its drawn height; it draws a landscape or square one
\* outputSize * baseScale high with its top edge at center - drawnHeight / 2 +
\* baseOffsetY; both keep the image's proportions and are centred horizontally on
\* center + baseOffsetX.
C30_BasePlacement ==
  (DrawCalled /\ drawn.composite.ok) =>
    LET fd == drawn.x.frameData
        img == drawn.x.files.base
        size == drawn.x.size
        base == drawn.composite.base
        center == Rat(size, 2)
        fit == Rat(size * fd.baseScale, 100)
        half(q) == Rat(q[1], 2 * q[2])
    IN /\ IF img.width < img.height
            THEN /\ base.width = fit
                 /\ base.y = RAdd(RSub(center, half(fit)), <<fd.baseOffsetY, 1>>)
            ELSE /\ base.height = fit
                 /\ base.y = RAdd(RSub(center, half(base.height)), <<fd.baseOffsetY, 1>>)
       /\ base.width[1] * base.height[2] * img.height
            = base.height[1] * base.width[2] * img.width
       /\ RAdd(base.x, half(base.width)) = RAdd(center, <<fd.baseOffsetX, 1>>)

\* a portrait of aspect 1/2 at baseScale 0.9 and output size 1000: 900 wide, 1800 high,
\* its top edge at 500 - 450
C30_Witness ==
  /\ DrawCalled
  /\ drawn.composite.ok
  /\ drawn.x.size = 1000
  /\ drawn.x.files.base.width = 1
  /\ drawn.x.files.base.height = 2
  /\ drawn.x.frameData.baseScale = 90
  /\ drawn.x.frameData.baseOffsetY = 0
  /\ drawn.composite.base = [x |-> <<50, 1>>, y |-> <<50, 1>>,
                             width |-> <<900, 1>>, height |-> <<1800, 1>>]

SweepDone == sweep.pc = "done"

\* the entities the sweep has to regenerate: enabled, and the original still known
SweepDue ==
  {e \in DOMAIN sweep.before :
     /\ Get(sweep.before[e].frameData, "enabled", FALSE) = TRUE
     /\ Get(sweep.before[e].frameData, "frameImage", Empty) # Empty
     /\ ~StartsWith(sweep.before[e].originalImage, getCacheFolder(cacheFolder) \o <<"/">>)}

\* C31: when the sweep has reported, every prototype and token with an enabled
\* configuration and a usable original was either regenerated (its artifact stored from
\* its original and configuration, and displayed) or failed, a failure having stopped
\* nothing after it; an entity whose original is a cached artifact, and an entity
\* without an enabled configuration, is as it was; the count reported is the number of
\* entities regenerated.
C31_SweepIsBestEffort ==
  SweepDone =>
    /\ sweep.processed \cup sweep.failed = SweepDue
    /\ sweep.processed \cap sweep.failed = {}
    /\ sweep.reported = Cardinality(sweep.processed)
    /\ \A e \in DOMAIN doc \ sweep.processed : doc[e] = sweep.before[e]
    /\ \A e \in sweep.processed :
         LET key == <<"f","r","a","m","e","_">> \o RoleName(e = ActorId) \o <<"_">> \o e
                      \o <<"_","a">>
         IN /\ key \in DOMAIN store
            /\ store[key] = [base |-> ImgA, frameData |-> FDOn]
            /\ doc[e].currentCacheKey = key
            /\ StartsWith(doc[e].src, getCacheFolder(cacheFolder) \o <<"/">> \o key \o WebpExt)
    /\ DOMAIN store = {<<"f","r","a","m","e","_">> \o RoleName(e = ActorId) \o <<"_">> \o e
                         \o <<"_","a">> : e \in sweep.processed}

\* the prototype failed, the first token was skipped for its cached original, and the
\* second token was regenerated and counted
C31_Witness ==
  /\ SweepDone
  /\ sweep.failed = {ActorId}
  /\ sweep.skipped = {TokenId}
  /\ sweep.processed = {OtherTokenId}
  /\ sweep.reported = 1

\* C32: the lock performAsyncFrameUpdate sets is consumed by its own re-issued update
\* only: no other update of the token is let through preUpdateToken on the lock, and
\* the re-issued update finds the lock when it reaches the hook.
C32_LockServesReissueOnly ==
  hook.called =>
    /\ (hook.isOwner /\ hook.locked) => hook.origin = "reissue"
    /\ hook.origin = "reissue" => hook.locked

InFlightFor(t) == \E i \in 1..Len(itasks) : itasks[i].t = t

\* C33: a token for which no performAsyncFrameUpdate is in flight has no lock in
\* UPDATE_LOCKS, so an external update of an enabled token to a new base image is
\* cancelled and regenerated.
C33_NoLockLeak ==
  /\ \A t \in DOMAIN doc : ~InFlightFor(t) => t \notin UPDATE_LOCKS
  /\ (/\ hook.called
      /\ hook.origin = "external"
      /\ hook.isOwner
      /\ Get(hook.changes, "src", Empty) \in RawImages
      /\ ~Has(hook.changes, "-=frameData")
      /\ FrameActive(Get(hook.changes, "frameData", <<>>) @@ hook.before.frameData)
      /\ Get(Get(hook.changes, "frameData", <<>>), "enabled", TRUE) # FALSE
      /\ ~(\E i \in 1..Len(itasks) : itasks[i].t = hook.t /\ itasks[i].pc = "update"))
       => ~hook.ret

ActorHandlerPending == atasks # <<>>

\* C35: whenever a handler of the prototype is pending (after a change of the
\* prototype's frameData or originalImage from outside, or a click on Apply Frame),
\* a state with no handler pending follows: the actor.update of updateActor starts
\* only finitely many further regenerations.
C35_PrototypeHandlingTerminates == ActorHandlerPending ~> ~ActorHandlerPending

\* the commit of updateActor's own update (it recorded originalImage for the first
\* time) has started a second regeneration
C35_Witness ==
  /\ commit.done
  /\ commit.origin = "updateActor"
  /\ Has(commit.changes, "originalImage")
  /\ commit.started
  /\ ActorHandlerPending

\* C34: the originalImage recorded for a token or for a prototype is never a path
\* inside the cache folder.
C34_OriginalIsNeverCached ==
  /\ \A t \in DOMAIN doc : ~InCacheNamespace(doc[t].originalImage)
  /\ \A a \in DOMAIN actors : ~InCacheNamespace(actors[a].originalImage)

(***************************************************************************)
(* The configuration panel's live preview: the form, the base image path, *)
(* the debounce timer and the generatePreview calls that are under way    *)
(***************************************************************************)

FDNoImage == [FDOn EXCEPT !.frameImage = Empty]

PanelForms == {FDOn, FDScaled, FDNoImage}

PanelPaths == RawImages \cup {UploadPath(Empty, tokenCacheKey(ImgA, TokenId))}

TimerOff == [armed |-> FALSE]

PreviewHidden == [visible |-> FALSE]

\* what the form holds when the token has no frame configuration yet
FormDefaults == [enabled |-> FALSE, frameImage |-> Empty, baseScale |-> 90]

\* updatePreview up to its await: the form is read now, the path is the caller's
updatePreview(P, baseImagePath) ==
  LET frameData == P.form
  IN IF baseImagePath = Empty \/ frameData.frameImage = Empty
       THEN [P EXCEPT !.shown = PreviewHidden]
       ELSE [P EXCEPT !.previews = Append(@, [baseImagePath |-> baseImagePath,
                                              frameData |-> frameData])]

\* debouncedPreviewUpdate: the pending timer is cleared and a new one is set
debouncedPreviewUpdate(P, baseImagePath) ==
  [P EXCEPT !.timer = [armed |-> TRUE, baseImagePath |-> baseImagePath]]

InitPanel ==
  /\ cacheFolder = Empty
  /\ design = "intercept"
  /\ \/ /\ doc = (TokenId :> Unframed)
        /\ store = <<>>
     \/ /\ doc = (TokenId :> Framed(cacheFolder))
        /\ store = StoreWrite(<<>>, tokenCacheKey(ImgA, TokenId), ImgA, FDOn)
  /\ InitIdle

\* the panel is rendered: the form is filled from the token, the base image is the
\* recorded original or the displayed image, and an enabled frame is previewed at once
PanelOpen ==
  /\ ~panel.open
  /\ LET t == doc[TokenId]
         path == IF t.originalImage # Empty THEN t.originalImage ELSE t.src
         form == IF t.frameData = Empty THEN FormDefaults ELSE t.frameData
         P == [open |-> TRUE, form |-> form, path |-> path, timer |-> TimerOff,
               previews |-> <<>>, shown |-> PreviewHidden]
     IN panel' = IF form.enabled /\ form.frameImage # Empty
                   THEN updatePreview(P, path)
                   ELSE P
  /\ UNCHANGED <<doc, cacheFolder, UPDATE_LOCKS, itasks, atasks, store, hook, commit, extCount,
                 calls, design, notifVars, uploads, keyed, drawn, sweep, actors>>

\* a form control changes
PanelFormEdit(formData) ==
  /\ panel.open
  /\ extCount < MaxExternal
  /\ extCount' = extCount + 1
  /\ panel' = debouncedPreviewUpdate([panel EXCEPT !.form = formData], panel.path)
  /\ UNCHANGED <<doc, cacheFolder, UPDATE_LOCKS, itasks, atasks, store, hook, commit,
                 calls, design, notifVars, uploads, keyed, drawn, sweep, actors>>

\* the base image input changes: a path of the cache is refused
PanelPathEdit(newPath) ==
  /\ panel.open
  /\ extCount < MaxExternal
  /\ extCount' = extCount + 1
  /\ panel' = IF isFromCache(cacheFolder, newPath)
                THEN panel
                ELSE debouncedPreviewUpdate([panel EXCEPT !.path = newPath], newPath)
  /\ UNCHANGED <<doc, cacheFolder, UPDATE_LOCKS, itasks, atasks, store, hook, commit,
                 calls, design, notifVars, uploads, keyed, drawn, sweep, actors>>

\* PREVIEW_DEBOUNCE_MS after the last edit the timer runs updatePreview
PanelTimerFires ==
  /\ panel.open
  /\ panel.timer.armed
  /\ panel' = updatePreview([panel EXCEPT !.timer = TimerOff], panel.timer.baseImagePath)
  /\ UNCHANGED <<doc, cacheFolder, UPDATE_LOCKS, itasks, atasks, store, hook, commit, extCount,
                 calls, design, notifVars, uploads, keyed, drawn, sweep, actors>>

\* one generatePreview call answers, in any order, and updatePreview shows its picture
PanelPreviewDone(i, files) ==
  /\ panel.open
  /\ i \in 1..Len(panel.previews)
  /\ LET call == panel.previews[i]
         dataUrl == generatePreview(call.baseImagePath, call.frameData, PreviewSize, files)
         rest == [j \in 1..(Len(panel.previews) - 1) |->
                    IF j < i THEN panel.previews[j] ELSE panel.previews[j + 1]]
     IN panel' = [panel EXCEPT !.previews = rest,
                               !.shown = IF dataUrl.ok
                                           THEN [visible |-> TRUE,
                                                 baseImagePath |-> call.baseImagePath,
                                                 frameData |-> call.frameData,
                                                 picture |-> dataUrl]
                                           ELSE PreviewHidden]
  /\ UNCHANGED <<doc, cacheFolder, UPDATE_LOCKS, itasks, atasks, store, hook, commit, extCount,
                 calls, design, notifVars, uploads, keyed, drawn, sweep, actors>>

PanelFiles ==
  {[base |-> [loads |-> l, width |-> 1, height |-> 1], frame |-> TRUE, mask |-> TRUE] :
     l \in BOOLEAN}

NextPanel ==
  \/ PanelOpen
  \/ \E formData \in PanelForms : PanelFormEdit(formData)
  \/ \E newPath \in PanelPaths : PanelPathEdit(newPath)
  \/ PanelTimerFires
  \/ \E i \in 1..2, files \in PanelFiles : PanelPreviewDone(i, files)

SpecPanel == InitPanel /\ [][NextPanel]_vars

PanelQuiet == panel.open /\ ~panel.timer.armed /\ panel.previews = <<>>

\* C36: once the debounce timer has fired and every generatePreview call has answered,
\* a picture shown in the panel is the preview of the form and base image as they are now
C36_PreviewIsLatest ==
  (PanelQuiet /\ panel.shown.visible)
    => /\ panel.shown.baseImagePath = panel.path
       /\ panel.shown.frameData = panel.form

(***************************************************************************)
(* One connected client among several.  Every committed creation or update *)
(* reaches each client's post-commit hook with the id of the user who made *)
(* it; sameUser says whether that user is this client's.  The pre-commit   *)
(* hooks run on the originating client only (host, external collaborator). *)
(***************************************************************************)

\* the first position of pat in s, 0 when there is none
IndexOf(s, pat) ==
  LET found == {i \in 1..(Len(s) - Len(pat) + 1) : SubSeq(s, i, i + Len(pat) - 1) = pat}
  IN IF found = {} THEN 0 ELSE CHOOSE i \in found : \A j \in found : i <= j

\* s.replace(pat, rep) with a string pattern: the first occurrence only
ReplaceFirst(s, pat, rep) ==
  LET i == IndexOf(s, pat)
  IN IF i = 0 THEN s
     ELSE SubSeq(s, 1, i - 1) \o rep \o SubSeq(s, i + Len(pat), Len(s))

\* the token data the host derives from the actor's prototype
TokenFromPrototype(a) ==
  [src |-> a.src, frameData |-> <<>>, originalImage |-> Empty, currentCacheKey |-> Empty,
   other |-> 0]

\* a prototype with an enabled configuration whose artifact was never staged
ActorUnstaged == [ActorPlain EXCEPT !.frameData = FDOn]

\* main.js: Hooks.on('preCreateToken'), document.updateSource(updateData) included
preCreateToken(a, document) ==
  LET prototypeFrameData == a.frameData
      cachedFramePath == a.cachedFramePath
      originalImage == a.originalImage
      withData == [document EXCEPT !.frameData = prototypeFrameData]
  IN IF FrameActive(prototypeFrameData)
       THEN IF cachedFramePath # Empty
              THEN [withData EXCEPT
                      !.src = cachedFramePath,
                      !.originalImage = IF originalImage # Empty THEN originalImage
                                        ELSE document.src,
                      !.currentCacheKey = ReplaceFirst(SplitPop(cachedFramePath), WebpExt, Empty)]
              ELSE withData
       ELSE document

\* main.js: Hooks.on('createToken'), up to the first await of applyFrameToToken
createToken(W, t, sameUser, placed) ==
  IF ~sameUser THEN W
  ELSE IF ~placed THEN W
  ELSE IF FrameActive(W.doc[t].frameData)
    THEN IF W.doc[t].currentCacheKey # Empty THEN W
         ELSE applyFrameToToken(W, t, FALSE)
  ELSE W

ClientTokenChanges ==
  {Field("frameData", FDScaled), Field("frameData", [enabled |-> FALSE]),
   Field("originalImage", ImgB)}

ClientCommit(handler, sameUser, changes, W, after, detail) ==
  [done |-> TRUE, handler |-> handler, sameUser |-> sameUser, changes |-> changes,
   committed |-> W.doc,
   started |-> (Len(after.atasks) + Len(after.itasks)) - (Len(W.atasks) + Len(W.itasks))]
    @@ detail

InitClient ==
  /\ cacheFolder = Empty
  /\ design = "intercept"
  /\ doc = <<>>
  /\ \/ /\ actors = (ActorId :> ActorFramed(cacheFolder))
        /\ store = StoreWrite(<<>>, protoCacheKey(ImgA, ActorId), ImgA, FDOn)
     \/ /\ actors \in {ActorId :> ActorPlain, ActorId :> ActorUnstaged}
        /\ store = <<>>
  /\ InitIdleButActors

\* a token of the actor is created by some user: preCreateToken has run on that user's
\* client, the host commits the document and this client's createToken hook runs
TokenCreated(sameUser, placed) ==
  /\ TokenId \notin DOMAIN doc
  /\ extCount < MaxExternal
  /\ extCount' = extCount + 1
  /\ LET a == actors[ActorId]
         created == preCreateToken(a, TokenFromPrototype(a))
         W0 == [World EXCEPT !.doc = (TokenId :> created) @@ doc]
         after == createToken(W0, TokenId, sameUser, placed)
     IN /\ SetWorld(after)
        /\ commit' = ClientCommit("createToken", sameUser, <<>>, W0, after,
                                  [prototype |-> a, placed |-> placed])
  /\ UNCHANGED <<cacheFolder, design, pureVars, calls, store, notifVars, uploads, hook>>

\* an update of the token by some user is committed and this client's updateToken runs
TokenUpdated(changes, sameUser) ==
  /\ TokenId \in DOMAIN doc
  /\ extCount < MaxExternal
  /\ extCount' = extCount + 1
  /\ LET W0 == [World EXCEPT !.doc[TokenId] = ApplyChanges(@, changes)]
         after == updateToken(W0, TokenId, changes, NoOptions, sameUser)
     IN /\ SetWorld(after)
        /\ commit' = ClientCommit("updateToken", sameUser, changes, W0, after, <<>>)
  /\ UNCHANGED <<cacheFolder, design, pureVars, calls, store, notifVars, uploads, hook>>

\* an update of the actor's prototype by some user is committed and updateActor runs
ActorUpdated(changes, sameUser) ==
  /\ extCount < MaxExternal
  /\ extCount' = extCount + 1
  /\ LET r == ActorUpdate(World, actors[ActorId], changes, sameUser)
     IN /\ SetWorld(r.W)
        /\ actors' = [actors EXCEPT ![ActorId] = r.actor]
        /\ commit' = IF r.committed
                       THEN ClientCommit("updateActor", sameUser, r.changes, World, r.W, <<>>)
                       ELSE NoCommit
  /\ UNCHANGED <<cacheFolder, design, keyed, drawn, sweep, panel, calls, store, notifVars,
                 uploads, hook>>

\* the tasks this client has started go on, the token's and the prototype's
ClientContinue ==
  \/ \E i \in 1..Len(atasks) : atasks[i].t = TokenId /\ SetFlagUpdate(i)
  \/ \E i \in 1..Len(atasks), ok \in BOOLEAN : atasks[i].t = TokenId /\ Composite(i, ok)
  \/ \E i \in 1..Len(atasks), ok \in BOOLEAN, now \in TimeStamps :
       atasks[i].t = TokenId /\ Upload(i, ok, now)
  \/ \E i \in 1..Len(atasks) : atasks[i].t = TokenId /\ ApplyUpdate(i)
  \/ \E i \in 1..Len(atasks), ok \in BOOLEAN, now \in ActorTimeStamps :
       atasks[i].t = ActorId /\ ActorGenerate(i, ok, now)
  \/ \E i \in 1..Len(atasks) : atasks[i].t = ActorId /\ ActorUpdateStep(i)

NextClient ==
  \/ \E sameUser \in BOOLEAN, placed \in BOOLEAN : TokenCreated(sameUser, placed)
  \/ \E changes \in ClientTokenChanges, sameUser \in BOOLEAN : TokenUpdated(changes, sameUser)
  \/ \E changes \in ExternalActorChanges, sameUser \in BOOLEAN : ActorUpdated(changes, sameUser)
  \/ ClientContinue

SpecClient == InitClient /\ [][NextClient]_vars

Staged(a) == FrameActive(a.frameData) /\ a.cachedFramePath # Empty

\* C37: a token created from a prototype with an enabled configuration and a staged
\* artifact shows that artifact, records the cache key the artifact was stored under,
\* and its creation starts no regeneration
C37_CreatedFromStagedPrototype ==
  (commit.done /\ Get(commit, "handler", "none") = "createToken" /\ Staged(commit.prototype))
    => /\ commit.committed[TokenId].src = commit.prototype.cachedFramePath
       /\ commit.committed[TokenId].currentCacheKey \in DOMAIN store
       /\ StartsWith(commit.prototype.cachedFramePath,
                     UploadPath(cacheFolder, commit.committed[TokenId].currentCacheKey)
                       \o <<"?">>)
       /\ commit.started = 0

\* a commit made by another user has just reached this client's hook
ObservedRemote == commit.done /\ ~Get(commit, "sameUser", TRUE)

\* C38: a client whose user did not originate a committed creation or update starts
\* nothing on it: its tasks, its locks and the store stay as they were, and the
\* entity is as the commit left it
C38_OnlyOriginatorRegenerates ==
  [][(extCount' # extCount /\ ObservedRemote')
       => /\ atasks' = atasks
          /\ itasks' = itasks
          /\ UPDATE_LOCKS' = UPDATE_LOCKS
          /\ store' = store
          /\ doc' = commit'.committed]_vars

\* a remote change of an enabled token's configuration, of an enabled prototype's
\* configuration, or a remote creation of a token due for a frame have been observed
C38_Witness ==
  /\ ObservedRemote
  /\ \/ /\ commit.handler = "updateToken"
        /\ Has(commit.changes, "frameData")
        /\ FrameActive(doc[TokenId].frameData)
     \/ /\ commit.handler = "updateActor"
        /\ Has(commit.changes, "frameData")
        /\ FrameActive(actors[ActorId].frameData)
     \/ /\ commit.handler = "createToken"
        /\ commit.placed
        /\ FrameActive(doc[TokenId].frameData)
        /\ doc[TokenId].currentCacheKey = Empty

(***************************************************************************)
(* frame-layer.js: compositeImage as the sequence of its drawing calls,    *)
(* each on the output canvas ("main") or on one of the temporary canvases. *)
(***************************************************************************)
DrawStep(canvas, op) == [canvas |-> canvas, op |-> op]

BlackFill == <<"#","0","0","0","0","0","0">>

\* a variant that draws the frame before the context is restored
compositeSteps_FrameInsideClip(frameData, maskImg) ==
  LET bgEnabled == Get(frameData, "bgEnabled", FALSE)
      bgColor == Get(frameData, "bgColor", BlackFill)
      fill(canvas) == IF bgEnabled /\ bgColor # Empty
                        THEN <<DrawStep(canvas, "fillRect")>> ELSE <<>>
  IN <<DrawStep("main", "save")>>
       \o (IF maskImg
             THEN fill("base")
                    \o <<DrawStep("base", "drawBase"), DrawStep("mask", "drawMask"),
                         DrawStep("mask", "putImageData"), DrawStep("base", "destination-in"),
                         DrawStep("main", "drawBaseCanvas")>>
             ELSE <<DrawStep("main", "clip")>> \o fill("main")
                    \o <<DrawStep("main", "drawBase")>>)
       \o <<DrawStep("main", "drawFrame"), DrawStep("main", "restore")>>

\* the calls between the image loads and canvas.toBlob
compositeSteps(frameData, maskImg) ==
  LET bgEnabled == Get(frameData, "bgEnabled", FALSE)
      bgColor == Get(frameData, "bgColor", BlackFill)
      fill(canvas) == IF bgEnabled /\ bgColor # Empty
                        THEN <<DrawStep(canvas, "fillRect")>> ELSE <<>>
  IN <<DrawStep("main", "save")>>
       \o (IF maskImg
             THEN fill("base")
                    \o <<DrawStep("base", "drawBase"), DrawStep("mask", "drawMask"),
                         DrawStep("mask", "putImageData"), DrawStep("base", "destination-in"),
                         DrawStep("main", "drawBaseCanvas")>>
             ELSE <<DrawStep("main", "clip")>> \o fill("main")
                    \o <<DrawStep("main", "drawBase")>>)
       \o <<DrawStep("main", "restore"), DrawStep("main", "drawFrame")>>

OrderFrameData ==
  {[enabled |-> TRUE, frameImage |-> FrameImg, maskImage |-> mi, baseScale |-> bs,
    frameScale |-> fs, bgEnabled |-> be, bgColor |-> bc] :
     mi \in {Empty, MaskImg}, bs \in {90, 50}, fs \in {100, 110}, be \in BOOLEAN,
     bc \in {BlackFill, Empty}}

OrderInputs ==
  [baseImagePath : {ImgA}, frameData : OrderFrameData, size : OutputSizes,
   files : [base : {[loads |-> l, width |-> 1, height |-> 1] : l \in BOOLEAN},
            frame : BOOLEAN, mask : BOOLEAN]]

\* compositeImage is called: the images load or the call fails before any drawing
OrderCalls(x) ==
  /\ ~drawn.called
  /\ LET composite == compositeImage(x.baseImagePath, x.frameData, x.size, x.files)
     IN drawn' = [called |-> TRUE, op |-> "order", x |-> x, ok |-> composite.ok,
                  steps |-> IF composite.ok
                              THEN compositeSteps(x.frameData, x.frameData.maskImage # Empty)
                              ELSE <<>>]
  /\ UNCHANGED <<doc, cacheFolder, UPDATE_LOCKS, itasks, atasks, store, hook, commit, extCount,
                 calls, design, notifVars, uploads, keyed, sweep, actors, panel>>

NextOrder == \E x \in OrderInputs : OrderCalls(x)

SpecOrder == InitDraw /\ [][NextOrder]_vars

StepsAt(op) == {i \in 1..Len(drawn.steps) : drawn.steps[i].op = op}

\* the steps before position i that save and restore the output context
OpenSaves(i) ==
  Cardinality({j \in 1..(i - 1) : drawn.steps[j] = DrawStep("main", "save")})
    - Cardinality({j \in 1..(i - 1) : drawn.steps[j] = DrawStep("main", "restore")})

\* C39: in both mask modes the background is filled (only when enabled) before the base
\* image is drawn, the base image reaches the output canvas before the frame, and the
\* frame is the last thing drawn on the output canvas, after the clip has been released
C39_DrawingOrder ==
  (drawn.called /\ drawn.op = "order" /\ drawn.ok) =>
    LET steps == drawn.steps
        fd == drawn.x.frameData
        masked == fd.maskImage # Empty
        onMain == SelectSeq(steps, LAMBDA st : st.canvas = "main")
        baseOnMain == IF masked THEN StepsAt("drawBaseCanvas") ELSE StepsAt("drawBase")
    IN /\ Cardinality(StepsAt("drawBase")) = 1
       /\ Cardinality(StepsAt("drawFrame")) = 1
       /\ Cardinality(baseOnMain) = 1
       /\ StepsAt("fillRect") # {} => fd.bgEnabled
       /\ \A f \in StepsAt("fillRect"), b \in StepsAt("drawBase") :
            f < b /\ steps[f].canvas = steps[b].canvas
       /\ \A b \in StepsAt("drawBase"), m \in baseOnMain, f \in StepsAt("drawFrame") :
            b <= m /\ m < f
       /\ onMain[Len(onMain)] = DrawStep("main", "drawFrame")
       /\ \A f \in StepsAt("drawFrame") :
            /\ OpenSaves(f) = 0
            /\ \E c \in (StepsAt("clip") \cup StepsAt("destination-in")) : c < f

\* a composite with a mask image and a background fill has been drawn
C39_Witness ==
  /\ drawn.called /\ drawn.op = "order" /\ drawn.ok
  /\ drawn.x.frameData.maskImage # Empty
  /\ StepsAt("fillRect") # {}

====
